---------------------------- MODULE Spec2Model ----------------------------
(***************************************************************************)
(* OpenPyPony telemetry logger.                                            *)
(*                                                                         *)
(* Part I   - the sample queue (src/copilot/src/ring_buffer.c) shared by   *)
(*            the producer core and the consumer core, at the granularity  *)
(*            of the individual loads and stores of its functions.         *)
(* Part II  - the binary session logger (src/copilot/src/binary_logger.c), *)
(*            one action per public function, on an abstract FatFs volume. *)
(* Part III - the retention manager of the flash logger                    *)
(*            (src/esp32-s3/src/logger.cpp): sessions on a SPIFFS          *)
(*            partition and cleanupOldSessions, one step per iteration of  *)
(*            its loop.                                                    *)
(* Part IV  - 64-bit timestamps on their way from the producer to a block. *)
(* Part V   - the write buffer of the flash logger (logFrame, writeFrame,  *)
(*            flush) with its frames.                                      *)
(*                                                                         *)
(* Each part has its own specifications (SpecRB, Spec, SpecFlash); a       *)
(* part's actions leave the other parts' variables unchanged.              *)
(***************************************************************************)
EXTENDS Integers, Sequences, FiniteSets, TLC

VARIABLES
    \* ---- ring_buffer.c -------------------------------------------------
    buffer,           \* sample_t buffer[RING_BUFFER_CAPACITY]
    head,             \* index of the next slot to write
    tail,             \* index of the next slot to read
    drop_count,       \* number of rejected pushes
    rb_mutex,         \* owner of rb_mutex: "none", "producer", "consumer"
    pcP,              \* producer core: position inside ring_buffer_push
    sP,               \* producer core: the sample being pushed (*s)
    okP,              \* producer core: local `ok` of ring_buffer_push
    regP,             \* producer core: register holding the loaded drop_count
    pcC,              \* consumer core: position inside consumer_entry's loop
    outC,             \* consumer core: local `s` filled by ring_buffer_pop
    okC,              \* consumer core: local `ok` of ring_buffer_pop
    nextId,           \* identity given to the next sample the producer builds
    pushed,           \* history: samples of the pushes that returned true
    popped,           \* history: samples handed out by pops that returned true
    dropsSinceReset,  \* history: rejected pushes since the last counter reset
    lockSnap          \* history: queue state when the producer took the mutex

VARIABLES
    \* ---- binary_logger.c and its environment ---------------------------
    clock,                  \* time_us_64(): microseconds since boot
    files,                  \* the FatFs volume: file name -> records written
    logger_active,          \* static bool logger_active
    file_open,              \* static bool file_open (log_fp is open)
    current_filename,       \* static char current_filename[256]
    current_block,          \* static opl_block_t current_block
    current_session,        \* static opl_session_id_t current_session
    last_flush_time,        \* static double last_flush_time (held in us)
    last_event_flush_time,  \* static double last_event_flush_time (in us)
    gforce_threshold,       \* static float gforce_threshold (tenths of g)
    event_rate_limit_s,     \* static double event_rate_limit_s (held in us)
    hw_items,               \* hw_items[0 .. hw_item_count-1]
    call,                   \* the last public call: arguments, return value
    last_event_commit,      \* history: clock of the session's last EVENT commit
    nWrites,                \* samples handed to an active session so far
    nTicks,                 \* clock advances so far
    faultsLeft,             \* storage failures the environment may still inject
    nStarts,                \* opl_start_session calls so far
    nConfigs                \* setter and opl_add_hardware_item calls so far

VARIABLES
    \* ---- esp32-s3 logger.cpp and its environment -------------------------
    flash,            \* the SPIFFS partition: file name -> [mtime, size]
    now_s,            \* time(nullptr): seconds
    logging_,         \* FlashLogger::logging_
    file_,            \* FlashLogger::file_ is not nullptr
    current_session_, \* FlashLogger::current_session_ (NoSession: empty string)
    cl_pc,            \* cleanupOldSessions: "idle", "loop", "remove", "done"
    sessions,         \* cleanupOldSessions: local `sessions`, sorted
    cl_i,             \* cleanupOldSessions: position of the range-for loop
    deleted_count,    \* cleanupOldSessions: local `deleted_count`
    cl_ret,           \* cleanupOldSessions: the value returned
    cl_log,           \* history: what the loop did with each session it met
    cl_stop,          \* history: why the run ended: "empty", "low", "end"
    nFlash            \* startSession, flush and cleanupOldSessions calls so far

VARIABLES
    \* ---- 64-bit timestamps on their way through the program ----------------
    probe             \* the last timestamp computation: arguments and results

VARIABLES
    \* ---- FlashLogger: the write buffer (src/esp32-s3/src/logger.cpp) --------
    fwb               \* file_, logging_, frame_count_, buffer_pos_, write_buffer_
                      \* of one FlashLogger, the frames accepted and the frames
                      \* handed to fwrite since the session started

rbVars == <<buffer, head, tail, drop_count, rb_mutex, pcP, sP, okP, regP,
            pcC, outC, okC, nextId, pushed, popped, dropsSinceReset, lockSnap>>

oplVars == <<clock, files, logger_active, file_open, current_filename,
             current_block, current_session, last_flush_time,
             last_event_flush_time, gforce_threshold, event_rate_limit_s,
             hw_items, call, last_event_commit, nWrites, nTicks, faultsLeft, nStarts, nConfigs>>

flVars == <<flash, now_s, logging_, file_, current_session_, cl_pc, sessions,
            cl_i, deleted_count, cl_ret, cl_log, cl_stop, nFlash>>

vars == <<rbVars, oplVars, flVars, probe, fwb>>

----------------------------------------------------------------------------
(* Bounds of the model *)

\* Number of slots of the queue (2048 in ring_buffer.h:7, scaled down).
RING_BUFFER_CAPACITY == 3

\* Number of samples the producer builds in one run.
MaxSamples == 5

----------------------------------------------------------------------------
(* Part I: ring_buffer.c *)

next_index_offByOne(i) == (i + 1) % (RING_BUFFER_CAPACITY + 1)

next_index(i) == (i + 1) % RING_BUFFER_CAPACITY

ring_buffer_is_empty == head = tail

ring_buffer_is_full_never == FALSE

ring_buffer_is_full == next_index(head) = tail

\* The samples stored between tail and head, oldest first.
RECURSIVE SlotsFrom(_, _)
SlotsFrom(i, n) == IF n = 0 THEN <<>> ELSE <<buffer[i]>> \o SlotsFrom(next_index(i), n - 1)

QueueCount == (head - tail + RING_BUFFER_CAPACITY) % RING_BUFFER_CAPACITY

QueueContents == SlotsFrom(tail, QueueCount)

InitRBVars ==
    /\ buffer = [i \in 0..(RING_BUFFER_CAPACITY - 1) |-> 0]
    /\ head = 0
    /\ tail = 0
    /\ drop_count = 0
    /\ rb_mutex = "none"
    /\ pcP = "idle"
    /\ sP = 0
    /\ okP = FALSE
    /\ regP = 0
    /\ pcC = "loop"
    /\ outC = 0
    /\ okC = FALSE
    /\ nextId = 1
    /\ pushed = <<>>
    /\ popped = <<>>
    /\ dropsSinceReset = 0
    /\ lockSnap = [head |-> 0, tail |-> 0, buffer |-> buffer, drop_count |-> 0]

\* ---- producer core: poll_fifo_and_push / poll_gps_and_push call push ----
ProducerCallPush ==
    /\ pcP = "idle"
    /\ nextId <= MaxSamples
    /\ sP' = nextId
    /\ nextId' = nextId + 1
    /\ okP' = FALSE
    /\ pcP' = "push_lock"
    /\ UNCHANGED <<buffer, head, tail, drop_count, rb_mutex, regP, pcC, outC, okC,
                   pushed, popped, dropsSinceReset, lockSnap>>
    /\ UNCHANGED <<oplVars, flVars, probe, fwb>>

\* mutex_enter_blocking(&rb_mutex)
PushLock ==
    /\ pcP = "push_lock"
    /\ rb_mutex = "none"
    /\ rb_mutex' = "producer"
    /\ pcP' = "push_check"
    /\ lockSnap' = [head |-> head, tail |-> tail, buffer |-> buffer,
                    drop_count |-> drop_count]
    /\ UNCHANGED <<buffer, head, tail, drop_count, sP, okP, regP, pcC, outC, okC,
                   nextId, pushed, popped, dropsSinceReset>>
    /\ UNCHANGED <<oplVars, flVars, probe, fwb>>

\* if (!ring_buffer_is_full())
PushCheck ==
    /\ pcP = "push_check"
    /\ pcP' = IF ring_buffer_is_full THEN "push_drop_load" ELSE "push_store"
    /\ UNCHANGED <<buffer, head, tail, drop_count, rb_mutex, sP, okP, regP, pcC,
                   outC, okC, nextId, pushed, popped, dropsSinceReset, lockSnap>>
    /\ UNCHANGED <<oplVars, flVars, probe, fwb>>

\* buffer[head] = *s
PushStore ==
    /\ pcP = "push_store"
    /\ buffer' = [buffer EXCEPT ![head] = sP]
    /\ pcP' = "push_advance"
    /\ UNCHANGED <<head, tail, drop_count, rb_mutex, sP, okP, regP, pcC, outC, okC,
                   nextId, pushed, popped, dropsSinceReset, lockSnap>>
    /\ UNCHANGED <<oplVars, flVars, probe, fwb>>

\* head = next_index(head); ok = true
PushAdvance ==
    /\ pcP = "push_advance"
    /\ head' = next_index(head)
    /\ okP' = TRUE
    /\ pushed' = Append(pushed, sP)
    /\ pcP' = "push_unlock"
    /\ UNCHANGED <<buffer, tail, drop_count, rb_mutex, sP, regP, pcC, outC, okC,
                   nextId, popped, dropsSinceReset, lockSnap>>
    /\ UNCHANGED <<oplVars, flVars, probe, fwb>>

\* drop_count++ : the load
PushDropLoad ==
    /\ pcP = "push_drop_load"
    /\ regP' = drop_count
    /\ pcP' = "push_drop_store"
    /\ UNCHANGED <<buffer, head, tail, drop_count, rb_mutex, sP, okP, pcC, outC,
                   okC, nextId, pushed, popped, dropsSinceReset, lockSnap>>
    /\ UNCHANGED <<oplVars, flVars, probe, fwb>>

\* drop_count++ : the store (uint32_t; MaxSamples keeps it far from wrapping)
PushDropStore ==
    /\ pcP = "push_drop_store"
    /\ drop_count' = regP + 1
    /\ dropsSinceReset' = dropsSinceReset + 1
    /\ pcP' = "push_unlock"
    /\ UNCHANGED <<buffer, head, tail, rb_mutex, sP, okP, regP, pcC, outC, okC,
                   nextId, pushed, popped, lockSnap>>
    /\ UNCHANGED <<oplVars, flVars, probe, fwb>>

\* mutex_exit(&rb_mutex); return ok
PushUnlock ==
    /\ pcP = "push_unlock"
    /\ rb_mutex' = "none"
    /\ pcP' = "idle"
    /\ UNCHANGED <<buffer, head, tail, drop_count, sP, okP, regP, pcC, outC, okC,
                   nextId, pushed, popped, dropsSinceReset, lockSnap>>
    /\ UNCHANGED <<oplVars, flVars, probe, fwb>>

\* ---- consumer core: the loop of consumer_entry --------------------------
\* while (true) { ... ring_buffer_pop(&s) ...
ConsumerCallPop ==
    /\ pcC = "loop"
    /\ okC' = FALSE
    /\ pcC' = "pop_lock"
    /\ UNCHANGED <<buffer, head, tail, drop_count, rb_mutex, pcP, sP, okP, regP,
                   outC, nextId, pushed, popped, dropsSinceReset, lockSnap>>
    /\ UNCHANGED <<oplVars, flVars, probe, fwb>>

\* mutex_enter_blocking(&rb_mutex)
PopLock ==
    /\ pcC = "pop_lock"
    /\ rb_mutex = "none"
    /\ rb_mutex' = "consumer"
    /\ pcC' = "pop_check"
    /\ UNCHANGED <<buffer, head, tail, drop_count, pcP, sP, okP, regP, outC, okC,
                   nextId, pushed, popped, dropsSinceReset, lockSnap>>
    /\ UNCHANGED <<oplVars, flVars, probe, fwb>>

\* if (!ring_buffer_is_empty())
PopCheck ==
    /\ pcC = "pop_check"
    /\ pcC' = IF ring_buffer_is_empty THEN "pop_unlock" ELSE "pop_load"
    /\ UNCHANGED <<buffer, head, tail, drop_count, rb_mutex, pcP, sP, okP, regP,
                   outC, okC, nextId, pushed, popped, dropsSinceReset, lockSnap>>
    /\ UNCHANGED <<oplVars, flVars, probe, fwb>>

\* *out = buffer[tail]
PopLoad ==
    /\ pcC = "pop_load"
    /\ outC' = buffer[tail]
    /\ pcC' = "pop_advance"
    /\ UNCHANGED <<buffer, head, tail, drop_count, rb_mutex, pcP, sP, okP, regP,
                   okC, nextId, pushed, popped, dropsSinceReset, lockSnap>>
    /\ UNCHANGED <<oplVars, flVars, probe, fwb>>

\* tail = next_index(tail); ok = true
PopAdvance ==
    /\ pcC = "pop_advance"
    /\ tail' = next_index(tail)
    /\ okC' = TRUE
    /\ popped' = Append(popped, outC)
    /\ pcC' = "pop_unlock"
    /\ UNCHANGED <<buffer, head, drop_count, rb_mutex, pcP, sP, okP, regP, outC,
                   nextId, pushed, dropsSinceReset, lockSnap>>
    /\ UNCHANGED <<oplVars, flVars, probe, fwb>>

PopUnlock_keepMutex ==
    /\ pcC = "pop_unlock"
    /\ pcC' = IF okC THEN "write" ELSE "check_flush"
    /\ UNCHANGED <<buffer, head, tail, drop_count, rb_mutex, pcP, sP, okP, regP,
                   outC, okC, nextId, pushed, popped, dropsSinceReset, lockSnap>>
    /\ UNCHANGED <<oplVars, flVars, probe, fwb>>

\* mutex_exit(&rb_mutex); return ok; then the branch of consumer_entry
PopUnlock ==
    /\ pcC = "pop_unlock"
    /\ rb_mutex' = "none"
    /\ pcC' = IF okC THEN "write" ELSE "check_flush"
    /\ UNCHANGED <<buffer, head, tail, drop_count, pcP, sP, okP, regP, outC, okC,
                   nextId, pushed, popped, dropsSinceReset, lockSnap>>
    /\ UNCHANGED <<oplVars, flVars, probe, fwb>>

\* opl_write_gps / opl_write_accel returns: the storage write inside it, which
\* may take arbitrarily long, is over.
ConsumerWriteDone ==
    /\ pcC = "write"
    /\ pcC' = "loop"
    /\ UNCHANGED <<buffer, head, tail, drop_count, rb_mutex, pcP, sP, okP, regP,
                   outC, okC, nextId, pushed, popped, dropsSinceReset, lockSnap>>
    /\ UNCHANGED <<oplVars, flVars, probe, fwb>>

\* opl_check_flush(); sleep_ms(5) returns.
ConsumerCheckFlushDone ==
    /\ pcC = "check_flush"
    /\ pcC' = "loop"
    /\ UNCHANGED <<buffer, head, tail, drop_count, rb_mutex, pcP, sP, okP, regP,
                   outC, okC, nextId, pushed, popped, dropsSinceReset, lockSnap>>
    /\ UNCHANGED <<oplVars, flVars, probe, fwb>>

\* ring_buffer_reset_counters(), called from the consumer core between two
\* iterations of its loop: one store, no mutex.
ring_buffer_reset_counters ==
    /\ pcC = "loop"
    /\ drop_count' = 0
    /\ dropsSinceReset' = 0
    /\ UNCHANGED <<buffer, head, tail, rb_mutex, pcP, sP, okP, regP, pcC, outC, okC,
                   nextId, pushed, popped, lockSnap>>
    /\ UNCHANGED <<oplVars, flVars, probe, fwb>>

ProducerStep ==
    \/ ProducerCallPush
    \/ PushLock
    \/ PushCheck
    \/ PushStore
    \/ PushAdvance
    \/ PushDropLoad
    \/ PushDropStore
    \/ PushUnlock

ConsumerPopStep ==
    \/ ConsumerCallPop
    \/ PopLock
    \/ PopCheck
    \/ PopLoad
    \/ PopAdvance
    \/ PopUnlock

NextRB ==
    \/ ProducerStep
    \/ ConsumerPopStep
    \/ ConsumerWriteDone
    \/ ConsumerCheckFlushDone
    \/ ring_buffer_reset_counters

----------------------------------------------------------------------------
(* Part II: binary_logger.c *)

\* ---- bounds ---------------------------------------------------------------
\* OPL_MAX_BLOCK_SIZE is 4096 in binary_logger.h:7; scaled down so that a block
\* holds three accelerometer records (16 bytes each), or one GPS record (36
\* bytes) and one accelerometer record. As with 4096, no payload size that
\* records can add up to lies between (int)(0.9f * capacity) and 0.9 * capacity.
OPL_MAX_BLOCK_SIZE == 132

\* MAX_HW_ITEMS is 32 in binary_logger.c:52; scaled down.
MAX_HW_ITEMS == 1

\* Samples handed to active sessions, clock advances, storage failures and
\* session starts in one run.
MaxWrites == 3

MaxTicks == 1

MaxFaults == 1

MaxStarts == 2

\* Calls of the setters and of opl_add_hardware_item in one run.
MaxConfigs == 2

\* ---- program constants -----------------------------------------------------
BLOCK_OVERHEAD == 80

OPL_MAX_DATA_PAYLOAD == OPL_MAX_BLOCK_SIZE - BLOCK_OVERHEAD

MAX_DATA_PAYLOAD == OPL_MAX_DATA_PAYLOAD

SAMPLE_TYPE_ACCELEROMETER == 1

SAMPLE_TYPE_GPS_FIX == 2

FLUSH_FLAG_TIME == 1

FLUSH_FLAG_SIZE == 2

FLUSH_FLAG_EVENT == 4

FLUSH_TIME_THRESHOLD_SECS == 300

SAMPLE_HEADER_LEN == 4

ACCEL_PAYLOAD_LEN == 12

GPS_PAYLOAD_LEN == 32

MAX_OFFSET_MS == 65535

\* main() sleeps 2000 ms before anything else runs: the clock at the earliest
\* call of the logger.
BOOT_DELAY_MS == 2000

UsPerSec == 1000000

UsPerMs == 1000

\* (int)(MAX_DATA_PAYLOAD * 0.9f)
SizeThreshold == (MAX_DATA_PAYLOAD * 9) \div 10

\* ---- inputs ------------------------------------------------------------------
\* (gx, gy, gz) in tenths of a g: 1.0 g at rest, and 3.0 g on one axis.
AccelInputs == {<<10, 0, 0>>, <<0, 30, 0>>}

\* (lat, lon, alt, speed, heading, hdop), degrees scaled by ten.
GpsInputs == {<<400, -740, 0, 0, 0, 0>>}

\* Clock advances between two calls: 1 s, 300 s.
ClockSteps == {1000000, 300000000}

\* Arguments of opl_set_gforce_threshold (tenths of a g) and of
\* opl_set_event_rate_limit (microseconds).
ThresholdInputs == {0, 10}

RateLimitInputs == {-1000000, 5000000}

HwInputs == {[hw_type |-> 1, conn_type |-> 1, identifier |-> "LIS3DH@0x18"]}

\* session_name, driver_name, vehicle_id, weather, ambient_temp * 10, config_crc
MetaInputs == {[session_name |-> "Track Day", driver_name |-> "John",
                vehicle_id |-> "Ciara", weather |-> 1, ambient_temp10 |-> 185,
                config_crc |-> 305419896]}

\* ---- helpers -----------------------------------------------------------------
\* Bitwise exclusive or of two n-bit numbers.
RECURSIVE BitXor(_, _, _)
BitXor(a, b, n) ==
    IF n = 0 THEN 0
    ELSE (((a % 2) + (b % 2)) % 2) + 2 * BitXor(a \div 2, b \div 2, n - 1)

BitOr_dropped(flags, f) == flags

\* flags |= f, for a single-bit f
BitOr(flags, f) == IF (flags \div f) % 2 = 1 THEN flags ELSE flags + f

HasFlag(flags, f) == (flags \div f) % 2 = 1

\* A 64-bit value as four 16-bit limbs, least significant first.
Limbs(v) == <<v % 65536, (v \div 65536) % 65536, 0, 0>>

\* a - b on 64 bits (unsigned, modulo 2^64), limb by limb with borrow
SubLimbs(a, b) ==
    LET d1 == a[1] - b[1]
        d2 == a[2] - b[2] - (IF d1 < 0 THEN 1 ELSE 0)
        d3 == a[3] - b[3] - (IF d2 < 0 THEN 1 ELSE 0)
        d4 == a[4] - b[4] - (IF d3 < 0 THEN 1 ELSE 0)
    IN  <<(d1 + 65536) % 65536, (d2 + 65536) % 65536,
          (d3 + 65536) % 65536, (d4 + 65536) % 65536>>

\* a / d on 64 bits for a divisor below 2^15: long division from the most
\* significant limb
DivLimbs(a, d) ==
    LET n4 == a[4]
        n3 == (n4 % d) * 65536 + a[3]
        n2 == (n3 % d) * 65536 + a[2]
        n1 == (n2 % d) * 65536 + a[1]
    IN  <<n1 \div d, n2 \div d, n3 \div d, n4 \div d>>

\* a >= b on 64 bits (unsigned)
GeqLimbs(a, b) ==
    \/ a = b
    \/ \E i \in 1..4 : a[i] > b[i] /\ \A k \in (i + 1)..4 : a[k] = b[k]

\* (uint32_t) v: the low 32 bits
TruncU32(v) == <<v[1], v[2], 0, 0>>

\* 0xDEADBEEF12345678
UuidXorLimbs == <<22136, 4660, 48879, 57005>>

\* generate_session_uuid with ts = time_us_64()
generate_session_uuid(ts) ==
    [uuid_part1 |-> Limbs(ts),
     uuid_part2 |-> [i \in 1..4 |-> BitXor(Limbs(ts)[i], UuidXorLimbs[i], 16)]]

ZeroSession == [uuid_part1 |-> <<0, 0, 0, 0>>, uuid_part2 |-> <<0, 0, 0, 0>>]

ZeroBlock ==
    [payload |-> <<>>, data_size |-> 0, sample_count |-> 0, flush_flags |-> 0,
     ts_start |-> 0, ts_end |-> 0, block_sequence |-> 0, session_id |-> ZeroSession]

\* A reset that leaves the samples of the committed block in the buffer.
block_reset_keepPayload(b) ==
    [ZeroBlock EXCEPT !.payload = b.payload, !.data_size = b.data_size,
                      !.sample_count = b.sample_count]

\* memset(b, 0, sizeof(*b)): every field, block_sequence and session_id included
block_reset(b) == ZeroBlock

\* The five lines that follow every write_block_to_file_fatfs of a commit:
\* block_sequence++, block_reset, memcpy of the session id.
NextBlock(b) ==
    [block_reset([b EXCEPT !.block_sequence = @ + 1]) EXCEPT
        !.session_id = current_session]

\* (uint32_t)((ts_us - ts_start) / 1000), saturated at 0xFFFF. The model's
\* timestamps never run backwards and stay below 2^31 us.
\* uint32_t offset_ms = (uint32_t)((ts_us - b->ts_start) / 1000);
\* if (offset_ms > 0xFFFF) offset_ms = 0xFFFF;   on 64-bit timestamps
OffsetMsWide(ts_us, ts_start) ==
    LET offset_ms == TruncU32(DivLimbs(SubLimbs(ts_us, ts_start), UsPerMs))
    IN  IF offset_ms[2] > 0 THEN MAX_OFFSET_MS ELSE offset_ms[1]

\* the same for the timestamps of the logger model, which are below 2^31
OffsetMs(ts_us, ts_start) == OffsetMsWide(Limbs(ts_us), Limbs(ts_start))

\* The timestamp bookkeeping both block_add_* do before their capacity check.
StampBlock(b, ts_us) ==
    [b EXCEPT !.ts_start = IF b.ts_start = 0 THEN ts_us ELSE @, !.ts_end = ts_us]

AppendRecord(b, type, len, ts_us, v, id) ==
    [b EXCEPT
        !.payload = Append(@, [type |-> type,
                               offset_ms |-> OffsetMs(ts_us, b.ts_start),
                               len |-> len, v |-> v, id |-> id, ts |-> ts_us]),
        !.data_size = @ + SAMPLE_HEADER_LEN + len,
        !.sample_count = @ + 1]

block_add_accel_unchecked(b, ts_us, g, id) ==
    [ok |-> TRUE,
     b |-> AppendRecord(StampBlock(b, ts_us), SAMPLE_TYPE_ACCELEROMETER,
                        ACCEL_PAYLOAD_LEN, ts_us, g, id)]

\* block_add_accel: the record keeps the sample (v), and for the properties its
\* identity (id) and its full timestamp (ts), which the bytes do not hold.
block_add_accel(b, ts_us, g, id) ==
    LET b1 == StampBlock(b, ts_us)
    IN  IF b1.data_size + SAMPLE_HEADER_LEN + ACCEL_PAYLOAD_LEN > MAX_DATA_PAYLOAD
        THEN [ok |-> FALSE, b |-> b1]
        ELSE [ok |-> TRUE,
              b |-> AppendRecord(b1, SAMPLE_TYPE_ACCELEROMETER, ACCEL_PAYLOAD_LEN,
                                 ts_us, g, id)]

block_add_gps(b, ts_us, fix, id) ==
    LET b1 == StampBlock(b, ts_us)
    IN  IF b1.data_size + SAMPLE_HEADER_LEN + GPS_PAYLOAD_LEN > MAX_DATA_PAYLOAD
        THEN [ok |-> FALSE, b |-> b1]
        ELSE [ok |-> TRUE,
              b |-> AppendRecord(b1, SAMPLE_TYPE_GPS_FIX, GPS_PAYLOAD_LEN,
                                 ts_us, fix, id)]

\* A record cut short by a failed f_write.
TornRecord == [type |-> "torn"]

DataRecord(b) ==
    [type |-> "data", session_id |-> b.session_id,
     block_sequence |-> b.block_sequence, ts_start |-> b.ts_start,
     ts_end |-> b.ts_end, flush_flags |-> b.flush_flags,
     sample_count |-> b.sample_count, data_size |-> b.data_size,
     payload |-> b.payload]

write_block_to_file_fatfs_always(content, b, wok) ==
    [ok |-> wok, content |-> Append(content, IF wok THEN DataRecord(b) ELSE TornRecord)]

\* write_block_to_file_fatfs on a file holding `content`; wok: the f_write
\* calls succeed.
write_block_to_file_fatfs(content, b, wok) ==
    IF b.sample_count = 0 THEN [ok |-> TRUE, content |-> content]
    ELSE IF wok THEN [ok |-> TRUE, content |-> Append(content, DataRecord(b))]
    ELSE [ok |-> FALSE, content |-> Append(content, TornRecord)]

\* What one call handed to write_block_to_file_fatfs, for `call.commits`.
CommitNote(b, ok) ==
    [flags |-> b.flush_flags, block_sequence |-> b.block_sequence,
     sample_count |-> b.sample_count, data_size |-> b.data_size,
     ts_end |-> b.ts_end, ok |-> ok]

\* gtot >= gforce_threshold with gtot = sqrtf(gx*gx + gy*gy + gz*gz): both
\* sides are non-negative, so the squares compare the same way.
MeetsThreshold(g, threshold) ==
    g[1] * g[1] + g[2] * g[2] + g[3] * g[3] >= threshold * threshold

\* ---- file names ----------------------------------------------------------------
RECURSIVE Digits(_)
Digits(n) == IF n < 10 THEN 1 ELSE 1 + Digits(n \div 10)

\* "session_%05d.opl": the number and the count of digits printed name the file
SequentialName(n) == [n |-> n, width |-> IF Digits(n) < 5 THEN 5 ELSE Digits(n)]

\* "session_%llu.opl" with the clock
TimestampName(ts) == [n |-> ts, width |-> Digits(ts)]

NoFile == [n |-> 0, width |-> 0]

RECURSIVE MaxOf(_)
MaxOf(S) ==
    IF S = {} THEN 0
    ELSE LET x == CHOOSE y \in S : TRUE
             m == MaxOf(S \ {x})
         IN  IF x > m THEN x ELSE m

\* The names f_readdir hands to the scan: all of them, or, when a call of
\* f_readdir fails, those returned before it (the order of the directory
\* entries is not modelled, so any part of the directory).
Listings(volume, read_ok) ==
    IF read_ok THEN {DOMAIN volume} ELSE SUBSET DOMAIN volume

\* a scan that returns the largest number found, not the one after it
get_next_session_number_fatfs_noIncrement(seen, scan_ok) ==
    IF ~scan_ok THEN -1
    ELSE IF seen = {} THEN 1 ELSE MaxOf({name.n : name \in seen})

\* get_next_session_number_fatfs: -1 when f_opendir fails, else the largest
\* atoi() of the session_*.opl names that f_readdir returned, plus one.
get_next_session_number_fatfs(seen, scan_ok) ==
    IF ~scan_ok THEN -1
    ELSE MaxOf({name.n : name \in seen}) + 1

\* generate_sequential_filename_fatfs, else generate_timestamp_filename
GenerateFilename(seen, scan_ok) ==
    LET next == get_next_session_number_fatfs(seen, scan_ok)
    IN  IF next > 0 THEN SequentialName(next) ELSE TimestampName(clock)

\* What the scan of a start was: f_opendir failed, f_readdir failed on the way,
\* or the whole directory was read.
ScanOutcome(scan_ok, read_ok) ==
    IF ~scan_ok THEN "unavailable" ELSE IF ~read_ok THEN "partial" ELSE "complete"

\* ---- state after static initialisation -------------------------------------------
NoCall ==
    [op |-> "none", ret |-> TRUE, id |-> 0, high |-> FALSE,
     overflow |-> FALSE, commits |-> <<>>, prev_event |-> -1, now |-> 0,
     scan |-> "none", next |-> 0]

InitOPLVars ==
    /\ clock = BOOT_DELAY_MS * UsPerMs
    /\ files = <<>>
    /\ logger_active = FALSE
    /\ file_open = FALSE
    /\ current_filename = NoFile
    /\ current_block = ZeroBlock
    /\ current_session = ZeroSession
    /\ last_flush_time = 0
    /\ last_event_flush_time = 0
    /\ gforce_threshold = 30
    /\ event_rate_limit_s = 1 * UsPerSec
    /\ hw_items = <<>>
    /\ call = NoCall
    /\ last_event_commit = -1
    /\ nWrites = 0
    /\ nTicks = 0
    /\ faultsLeft = 0
    /\ nStarts = 0
    /\ nConfigs = 0

Cost(ok) == IF ok THEN 0 ELSE 1

\* ---- the clock ---------------------------------------------------------------------
Tick ==
    /\ nTicks < MaxTicks
    /\ \E d \in ClockSteps : clock' = clock + d
    /\ nTicks' = nTicks + 1
    /\ UNCHANGED <<files, logger_active, file_open, current_filename, current_block,
                   current_session, last_flush_time, last_event_flush_time,
                   gforce_threshold, event_rate_limit_s, hw_items, call,
                   last_event_commit, nWrites, faultsLeft, nStarts, nConfigs>>
    /\ UNCHANGED <<rbVars, flVars, probe, fwb>>

\* ---- opl_add_hardware_item -----------------------------------------------------------
\* The clock keeps running while the consumer loop sleeps between two calls of
\* opl_check_flush: with samples waiting in the current block, 300 s pass
\* unless the time trigger is already due.
ClockAdvance ==
    /\ logger_active
    /\ current_block.sample_count > 0
    /\ clock - last_flush_time < FLUSH_TIME_THRESHOLD_SECS * UsPerSec
    /\ clock' = clock + FLUSH_TIME_THRESHOLD_SECS * UsPerSec
    /\ UNCHANGED <<files, logger_active, file_open, current_filename, current_block,
                   current_session, last_flush_time, last_event_flush_time,
                   gforce_threshold, event_rate_limit_s, hw_items, call,
                   last_event_commit, nWrites, nTicks, faultsLeft, nStarts,
                   nConfigs>>
    /\ UNCHANGED <<rbVars, flVars, probe, fwb>>

\* A time trigger that never comes due.
TimeTriggerDue_never == FALSE

\* now - last_flush_time >= FLUSH_TIME_THRESHOLD_SECS
TimeTriggerDue ==
    clock - last_flush_time >= FLUSH_TIME_THRESHOLD_SECS * UsPerSec

opl_add_hardware_item_unbounded ==
    \E item \in HwInputs :
        /\ nConfigs < MaxConfigs
        /\ nConfigs' = nConfigs + 1
        /\ hw_items' = Append(hw_items, item)
        /\ call' = [NoCall EXCEPT !.op = "add_hardware_item"]
        /\ UNCHANGED <<clock, files, logger_active, file_open, current_filename,
                       current_block, current_session, last_flush_time,
                       last_event_flush_time, gforce_threshold, event_rate_limit_s,
                       last_event_commit, nWrites, nTicks, faultsLeft, nStarts>>
        /\ UNCHANGED <<rbVars, flVars, probe, fwb>>

opl_add_hardware_item ==
    \E item \in HwInputs :
        /\ nConfigs < MaxConfigs
        /\ nConfigs' = nConfigs + 1
        /\ IF Len(hw_items) >= MAX_HW_ITEMS
           THEN /\ call' = [NoCall EXCEPT !.op = "add_hardware_item", !.ret = FALSE]
                /\ UNCHANGED hw_items
           ELSE /\ hw_items' = Append(hw_items, item)
                /\ call' = [NoCall EXCEPT !.op = "add_hardware_item"]
        /\ UNCHANGED <<clock, files, logger_active, file_open, current_filename,
                       current_block, current_session, last_flush_time,
                       last_event_flush_time, gforce_threshold, event_rate_limit_s,
                       last_event_commit, nWrites, nTicks, faultsLeft, nStarts>>
        /\ UNCHANGED <<rbVars, flVars, probe, fwb>>

\* ---- opl_stop_session ------------------------------------------------------------------
EndRecord_zeroId == [type |-> "end", session_id |-> ZeroSession]

EndRecord == [type |-> "end", session_id |-> current_session]

StopVolume_noFlush(wb, we) ==
    [files EXCEPT ![current_filename] = Append(@, IF we THEN EndRecord ELSE TornRecord)]

\* The volume after opl_stop_session's writes; wb, we: the write of the block
\* and the write of the end marker succeed.
StopVolume(wb, we) ==
    LET f0 == files[current_filename]
        f1 == IF current_block.sample_count > 0
              THEN write_block_to_file_fatfs(f0, current_block, wb).content
              ELSE f0
        f2 == Append(f1, IF we THEN EndRecord ELSE TornRecord)
    IN  [files EXCEPT ![current_filename] = f2]

StopCommits(wb) ==
    IF current_block.sample_count > 0
    THEN <<CommitNote(current_block, wb)>>
    ELSE <<>>

opl_stop_session_ungated ==
    /\ current_filename \in DOMAIN files
    /\ files' = StopVolume(TRUE, TRUE)
    /\ file_open' = FALSE
    /\ logger_active' = FALSE
    /\ hw_items' = <<>>
    /\ call' = [NoCall EXCEPT !.op = "stop_session", !.commits = StopCommits(TRUE)]
    /\ UNCHANGED <<clock, current_filename, current_block, current_session,
                   last_flush_time, last_event_flush_time, gforce_threshold,
                   event_rate_limit_s, last_event_commit, nWrites, nTicks,
                   faultsLeft, nStarts, nConfigs>>
    /\ UNCHANGED <<rbVars, flVars, probe, fwb>>

opl_stop_session ==
    IF ~logger_active
    THEN /\ call' = [NoCall EXCEPT !.op = "stop_session"]
         /\ UNCHANGED <<clock, files, logger_active, file_open, current_filename,
                        current_block, current_session, last_flush_time,
                        last_event_flush_time, gforce_threshold, event_rate_limit_s,
                        hw_items, last_event_commit, nWrites, nTicks, faultsLeft,
                        nStarts, nConfigs>>
         /\ UNCHANGED <<rbVars, flVars, probe, fwb>>
    ELSE \E wb, we \in BOOLEAN :
         /\ wb \/ current_block.sample_count > 0
         /\ Cost(wb) + Cost(we) <= faultsLeft
         /\ faultsLeft' = faultsLeft - (Cost(wb) + Cost(we))
         /\ files' = StopVolume(wb, we)
         /\ file_open' = FALSE
         /\ logger_active' = FALSE
         /\ hw_items' = <<>>
         /\ call' = [NoCall EXCEPT !.op = "stop_session",
                                   !.commits = StopCommits(wb)]
         /\ UNCHANGED <<clock, current_filename, current_block, current_session,
                        last_flush_time, last_event_flush_time, gforce_threshold,
                        event_rate_limit_s, last_event_commit, nWrites, nTicks,
                        nStarts, nConfigs>>
         /\ UNCHANGED <<rbVars, flVars, probe, fwb>>

\* ---- opl_start_session ----------------------------------------------------------------
HeaderRecord_zeroId(meta, sid) ==
    [type |-> "header", write_ts |-> clock, session_id |-> ZeroSession, meta |-> meta]

HeaderRecord(meta, sid) ==
    [type |-> "header", write_ts |-> clock, session_id |-> sid, meta |-> meta]

HardwareRecord(items) == [type |-> "hw", items |-> items]

FileOpenAfterStart_noClose(stopping, open_ok, hdr_ok) ==
    IF ~open_ok THEN (IF stopping THEN FALSE ELSE file_open) ELSE TRUE

\* file_open when opl_start_session returns: left as the implied stop or the
\* caller left it when f_open fails, else set, and cleared again with f_close
\* when the header write fails.
FileOpenAfterStart(stopping, open_ok, hdr_ok) ==
    IF ~open_ok THEN (IF stopping THEN FALSE ELSE file_open) ELSE hdr_ok

\* in: the outcomes of the directory scan, of f_open, of the header write and of
\* the hardware block write, and of the two writes of the implied stop.
opl_start_session ==
    \E meta \in MetaInputs, scan_ok, read_ok, open_ok, hdr_ok, hw_ok, wb, we \in BOOLEAN :
    \E seen \in Listings(files, read_ok) :
    LET stopping == logger_active
        volume0 == IF stopping THEN StopVolume(wb, we) ELSE files
        items == IF stopping THEN <<>> ELSE hw_items
        fname == GenerateFilename(seen, scan_ok)
        sid == generate_session_uuid(clock)
        block == [block_reset(current_block) EXCEPT !.block_sequence = 0,
                                                    !.session_id = sid]
        volume1 == (fname :> <<>>) @@ volume0
        hwpart == IF Len(items) > 0
                  THEN <<IF hw_ok THEN HardwareRecord(items) ELSE TornRecord>>
                  ELSE <<>>
        volume2 == [volume1 EXCEPT ![fname] =
                       IF hdr_ok THEN <<HeaderRecord(meta, sid)>> \o hwpart
                       ELSE <<TornRecord>>]
        cost == Cost(scan_ok) + Cost(read_ok) + Cost(open_ok) + Cost(hdr_ok)
                + Cost(hw_ok)
                + Cost(wb) + Cost(we)
        note == [NoCall EXCEPT !.op = "start_session",
                    !.commits = IF stopping THEN StopCommits(wb) ELSE <<>>,
                    !.scan = ScanOutcome(scan_ok, read_ok),
                    !.next = get_next_session_number_fatfs(seen, scan_ok)]
    IN
    /\ nStarts < MaxStarts
    /\ nStarts' = nStarts + 1
    \* outcomes of calls that are not made are not inputs
    /\ (wb \/ (stopping /\ current_block.sample_count > 0))
    /\ (we \/ stopping)
    /\ (read_ok \/ scan_ok)
    /\ (hdr_ok \/ open_ok)
    /\ (hw_ok \/ (open_ok /\ hdr_ok /\ Len(items) > 0))
    /\ cost <= faultsLeft
    /\ faultsLeft' = faultsLeft - cost
    /\ current_filename' = fname
    /\ hw_items' = items
    /\ file_open' = FileOpenAfterStart(stopping, open_ok, hdr_ok)
    /\ IF ~open_ok
       THEN /\ files' = volume0
            /\ logger_active' = IF stopping THEN FALSE ELSE logger_active
            /\ call' = [note EXCEPT !.ret = FALSE]
            /\ UNCHANGED <<current_block, current_session, last_flush_time,
                           last_event_flush_time, last_event_commit>>
       ELSE IF ~hdr_ok
       THEN /\ files' = volume2
            /\ logger_active' = IF stopping THEN FALSE ELSE logger_active
            /\ current_session' = sid
            /\ current_block' = block
            /\ call' = [note EXCEPT !.ret = FALSE]
            /\ UNCHANGED <<last_flush_time, last_event_flush_time,
                           last_event_commit>>
       ELSE /\ files' = volume2
            /\ logger_active' = TRUE
            /\ current_session' = sid
            /\ current_block' = block
            /\ last_flush_time' = clock
            /\ last_event_flush_time' = 0
            /\ last_event_commit' = -1
            /\ call' = note
    /\ UNCHANGED <<clock, gforce_threshold, event_rate_limit_s, nWrites, nTicks,
                   nConfigs>>
    /\ UNCHANGED <<rbVars, flVars, probe, fwb>>

\* ---- opl_write_accel --------------------------------------------------------------------
\* in: the sample, the caller's timestamp (0: take the clock), and the outcomes
\* w1, w2 of the block write of the overflow path and of the event/size commit.
opl_write_accel ==
    IF ~logger_active
    THEN /\ call' = [NoCall EXCEPT !.op = "write_accel", !.ret = FALSE]
         /\ UNCHANGED <<clock, files, logger_active, file_open, current_filename,
                        current_block, current_session, last_flush_time,
                        last_event_flush_time, gforce_threshold, event_rate_limit_s,
                        hw_items, last_event_commit, nWrites, nTicks, faultsLeft,
                        nStarts, nConfigs>>
         /\ UNCHANGED <<rbVars, flVars, probe, fwb>>
    ELSE
    \E g \in AccelInputs, timestamp_us \in {0, clock}, w1, w2 \in BOOLEAN :
    LET ts == IF timestamp_us = 0 THEN clock ELSE timestamp_us
        id == nWrites + 1
        f0 == files[current_filename]
        r1 == block_add_accel(current_block, ts, g, id)
        overflow == ~r1.ok
        wr1 == write_block_to_file_fatfs(f0, r1.b, w1)
        r2 == block_add_accel(NextBlock(r1.b), ts, g, id)
        added == IF overflow THEN r2.ok ELSE TRUE
        blockA == IF overflow THEN r2.b ELSE r1.b
        fA == IF overflow THEN wr1.content ELSE f0
        high == MeetsThreshold(g, gforce_threshold)
        now == clock
        event == added /\ high /\ now - last_event_flush_time >= event_rate_limit_s
        size == added /\ ~high /\ blockA.data_size >= SizeThreshold
        blockF == IF event
                  THEN [blockA EXCEPT !.flush_flags = BitOr(@, FLUSH_FLAG_EVENT)]
                  ELSE [blockA EXCEPT !.flush_flags = BitOr(@, FLUSH_FLAG_SIZE)]
        wr2 == write_block_to_file_fatfs(fA, blockF, w2)
        commits == (IF overflow THEN <<CommitNote(r1.b, wr1.ok)>> ELSE <<>>)
                   \o (IF event \/ size THEN <<CommitNote(blockF, wr2.ok)>> ELSE <<>>)
    IN
    /\ nWrites < MaxWrites
    /\ nWrites' = nWrites + 1
    /\ (w1 \/ overflow)
    /\ (w2 \/ event \/ size)
    /\ Cost(w1) + Cost(w2) <= faultsLeft
    /\ faultsLeft' = faultsLeft - (Cost(w1) + Cost(w2))
    /\ files' = [files EXCEPT ![current_filename] =
                    IF event \/ size THEN wr2.content ELSE fA]
    /\ current_block' = IF event \/ size THEN NextBlock(blockF) ELSE blockA
    /\ last_flush_time' = IF event \/ size THEN now ELSE last_flush_time
    /\ last_event_flush_time' = IF event THEN now ELSE last_event_flush_time
    /\ last_event_commit' = IF event THEN now ELSE last_event_commit
    /\ call' = [NoCall EXCEPT !.op = "write_accel", !.ret = added, !.id = id,
                              !.high = high, !.overflow = overflow,
                              !.commits = commits,
                              !.prev_event = last_event_commit, !.now = now]
    /\ UNCHANGED <<clock, logger_active, file_open, current_filename,
                   current_session, gforce_threshold, event_rate_limit_s, hw_items,
                   nTicks, nStarts, nConfigs>>
    /\ UNCHANGED <<rbVars, flVars, probe, fwb>>

\* ---- opl_write_gps ------------------------------------------------------------------------
opl_write_gps ==
    IF ~logger_active
    THEN /\ call' = [NoCall EXCEPT !.op = "write_gps", !.ret = FALSE]
         /\ UNCHANGED <<clock, files, logger_active, file_open, current_filename,
                        current_block, current_session, last_flush_time,
                        last_event_flush_time, gforce_threshold, event_rate_limit_s,
                        hw_items, last_event_commit, nWrites, nTicks, faultsLeft,
                        nStarts, nConfigs>>
         /\ UNCHANGED <<rbVars, flVars, probe, fwb>>
    ELSE
    \E fix \in GpsInputs, timestamp_us \in {0, clock}, w1 \in BOOLEAN :
    LET ts == IF timestamp_us = 0 THEN clock ELSE timestamp_us
        id == nWrites + 1
        f0 == files[current_filename]
        r1 == block_add_gps(current_block, ts, fix, id)
        overflow == ~r1.ok
        wr1 == write_block_to_file_fatfs(f0, r1.b, w1)
        r2 == block_add_gps(NextBlock(r1.b), ts, fix, id)
        added == IF overflow THEN r2.ok ELSE TRUE
    IN
    /\ nWrites < MaxWrites
    /\ nWrites' = nWrites + 1
    /\ (w1 \/ overflow)
    /\ Cost(w1) <= faultsLeft
    /\ faultsLeft' = faultsLeft - Cost(w1)
    /\ files' = [files EXCEPT ![current_filename] =
                    IF overflow THEN wr1.content ELSE f0]
    /\ current_block' = IF overflow THEN r2.b ELSE r1.b
    /\ call' = [NoCall EXCEPT !.op = "write_gps", !.ret = added, !.id = id,
                              !.overflow = overflow,
                              !.commits = IF overflow
                                          THEN <<CommitNote(r1.b, wr1.ok)>>
                                          ELSE <<>>,
                              !.prev_event = last_event_commit, !.now = clock]
    /\ UNCHANGED <<clock, logger_active, file_open, current_filename,
                   current_session, last_flush_time, last_event_flush_time,
                   gforce_threshold, event_rate_limit_s, hw_items,
                   last_event_commit, nTicks, nStarts, nConfigs>>
    /\ UNCHANGED <<rbVars, flVars, probe, fwb>>

\* ---- opl_check_flush ----------------------------------------------------------------------
opl_check_flush_ungated ==
    /\ last_flush_time' = clock
    /\ call' = [NoCall EXCEPT !.op = "check_flush"]
    /\ UNCHANGED <<clock, files, logger_active, file_open, current_filename,
                   current_block, current_session, last_event_flush_time,
                   gforce_threshold, event_rate_limit_s, hw_items,
                   last_event_commit, nWrites, nTicks, faultsLeft, nStarts,
                   nConfigs>>
    /\ UNCHANGED <<rbVars, flVars, probe, fwb>>

opl_check_flush ==
    IF ~logger_active \/ ~TimeTriggerDue
    THEN /\ call' = [NoCall EXCEPT !.op = "check_flush"]
         /\ UNCHANGED <<clock, files, logger_active, file_open, current_filename,
                        current_block, current_session, last_flush_time,
                        last_event_flush_time, gforce_threshold, event_rate_limit_s,
                        hw_items, last_event_commit, nWrites, nTicks, faultsLeft,
                        nStarts, nConfigs>>
         /\ UNCHANGED <<rbVars, flVars, probe, fwb>>
    ELSE
    \E w1 \in BOOLEAN :
    LET blockF == [current_block EXCEPT !.flush_flags = BitOr(@, FLUSH_FLAG_TIME)]
        wr == write_block_to_file_fatfs(files[current_filename], blockF, w1)
    IN
    /\ (w1 \/ blockF.sample_count > 0)
    /\ Cost(w1) <= faultsLeft
    /\ faultsLeft' = faultsLeft - Cost(w1)
    /\ files' = [files EXCEPT ![current_filename] = wr.content]
    /\ current_block' = NextBlock(blockF)
    /\ last_flush_time' = clock
    /\ call' = [NoCall EXCEPT !.op = "check_flush",
                              !.commits = IF blockF.sample_count > 0
                                          THEN <<CommitNote(blockF, wr.ok)>>
                                          ELSE <<>>]
    /\ UNCHANGED <<clock, logger_active, file_open, current_filename,
                   current_session, last_event_flush_time, gforce_threshold,
                   event_rate_limit_s, hw_items, last_event_commit, nWrites,
                   nTicks, nStarts, nConfigs>>
    /\ UNCHANGED <<rbVars, flVars, probe, fwb>>

\* ---- setters ---------------------------------------------------------------------------------
\* a setter that stores whatever it is given
opl_set_gforce_threshold_unchecked ==
    \E g \in ThresholdInputs :
        /\ nConfigs < MaxConfigs
        /\ nConfigs' = nConfigs + 1
        /\ gforce_threshold' = g
        /\ call' = [NoCall EXCEPT !.op = "set_gforce_threshold"]
        /\ UNCHANGED <<clock, files, logger_active, file_open, current_filename,
                       current_block, current_session, last_flush_time,
                       last_event_flush_time, event_rate_limit_s, hw_items,
                       last_event_commit, nWrites, nTicks, faultsLeft, nStarts>>
        /\ UNCHANGED <<rbVars, flVars, probe, fwb>>

opl_set_gforce_threshold ==
    \E g \in ThresholdInputs :
        /\ nConfigs < MaxConfigs
        /\ nConfigs' = nConfigs + 1
        /\ gforce_threshold' = IF g > 0 THEN g ELSE gforce_threshold
        /\ call' = [NoCall EXCEPT !.op = "set_gforce_threshold"]
        /\ UNCHANGED <<clock, files, logger_active, file_open, current_filename,
                       current_block, current_session, last_flush_time,
                       last_event_flush_time, event_rate_limit_s, hw_items,
                       last_event_commit, nWrites, nTicks, faultsLeft, nStarts>>
        /\ UNCHANGED <<rbVars, flVars, probe, fwb>>

opl_set_event_rate_limit ==
    \E seconds \in RateLimitInputs :
        /\ nConfigs < MaxConfigs
        /\ nConfigs' = nConfigs + 1
        /\ event_rate_limit_s' = IF seconds >= 0 THEN seconds ELSE event_rate_limit_s
        /\ call' = [NoCall EXCEPT !.op = "set_event_rate_limit"]
        /\ UNCHANGED <<clock, files, logger_active, file_open, current_filename,
                       current_block, current_session, last_flush_time,
                       last_event_flush_time, gforce_threshold, hw_items,
                       last_event_commit, nWrites, nTicks, faultsLeft, nStarts>>
        /\ UNCHANGED <<rbVars, flVars, probe, fwb>>

\* The environment turns storage failures on: up to MaxFaults of the f_opendir,
\* f_open and f_write calls that follow fail.
InjectFaults ==
    /\ call.op = "none"
    /\ faultsLeft = 0
    /\ faultsLeft' = MaxFaults
    /\ call' = [NoCall EXCEPT !.op = "inject_faults"]
    /\ UNCHANGED <<clock, files, logger_active, file_open, current_filename,
                   current_block, current_session, last_flush_time,
                   last_event_flush_time, gforce_threshold, event_rate_limit_s,
                   hw_items, last_event_commit, nWrites, nTicks, nStarts, nConfigs>>
    /\ UNCHANGED <<rbVars, flVars, probe, fwb>>

\* The logger with the session calls of consumer_entry's loop, on storage that
\* never fails and with the configuration left at its defaults.
Next ==
    \/ Tick
    \/ opl_start_session
    \/ opl_stop_session
    \/ opl_write_accel
    \/ opl_write_gps
    \/ opl_check_flush

\* The same on storage that may fail.
NextFaulty ==
    \/ InjectFaults
    \/ Next

----------------------------------------------------------------------------
(* Part III: logger.cpp (esp32-s3) *)

\* ---- bounds ---------------------------------------------------------------
\* Size of the SPIFFS partition (esp_spiffs_info's total), in allocation units.
TotalSize == 10

\* time(nullptr) takes the values 0 .. MaxTime.
MaxTime == 2

\* startSession and cleanupOldSessions calls in one run.
MaxFlashCalls == 4

\* ---- constants ------------------------------------------------------------
\* LOW_WATER_MARK * 100.0f
LOW_WATER_MARK == 60

\* HIGH_WATER_MARK * 100.0f
HIGH_WATER_MARK == 90

\* the file header "OPL1": one allocation unit
HeaderSize == 1

\* the empty current_session_ of a logger that has not started a session
NoSession == -1

\* ---- inputs ---------------------------------------------------------------
\* Sizes of the block one flush() writes (the LZ4 output varies); 0: the write
\* buffer is empty.
BlockSizes == {2}

\* Arguments of startSession: nullptr, or the name of a file ("run.opl").
SessionNameInputs == {NoSession, 9}

\* ---- helpers --------------------------------------------------------------
RECURSIVE SumSizes(_, _)
SumSizes(volume, names) ==
    IF names = {} THEN 0
    ELSE LET n == CHOOSE x \in names : TRUE
         IN  volume[n].size + SumSizes(volume, names \ {n})

\* esp_spiffs_info's used
Used(volume) == SumSizes(volume, DOMAIN volume)

\* getTotalUsed, getTotalSize: 0 when esp_spiffs_info fails
getTotalUsed(info_ok) == IF info_ok THEN Used(flash) ELSE 0

getTotalSize(info_ok) == IF info_ok THEN TotalSize ELSE 0

\* a loop that stops at the high-water mark
AtOrBelowLowWater_high(used, total) ==
    IF total = 0 THEN TRUE ELSE used * 100 <= 90 * total

\* getUsagePercent() <= LOW_WATER_MARK * 100.0f, where getUsagePercent is
\* 0.0f when the total is 0 and used / total * 100.0f otherwise
AtOrBelowLowWater(used, total) ==
    IF total = 0 THEN TRUE ELSE used * 100 <= LOW_WATER_MARK * total

\* generateSessionName: "/spiffs/session_YYYYMMDD_HHMMSS.opl" of the clock; the
\* second names the file
generateSessionName(t) == t

\* fwrite of `sz` units at the end of a file: what does not fit is not written
Grown(volume, name, sz) ==
    LET room == TotalSize - Used(volume)
        n == IF sz <= room THEN sz ELSE room
    IN  IF n = 0 THEN volume
        ELSE [volume EXCEPT ![name] = [mtime |-> now_s, size |-> @.size + n]]

Removed(volume, name) == [n \in DOMAIN volume \ {name} |-> volume[n]]

\* listSessions: nothing when opendir fails; else one SessionInfo per *.opl
\* file whose stat() succeeds
listSessions(dir_ok, unstat) ==
    IF ~dir_ok THEN {}
    ELSE {[filename |-> n, size_bytes |-> flash[n].size,
           created_time |-> flash[n].mtime] : n \in DOMAIN flash \ unstat}

\* a sort that leaves the vector in any order
SortedListings_unsorted(S) ==
    {seq \in [1..Cardinality(S) -> S] :
        \A i, k \in 1..Cardinality(S) : i # k => seq[i] # seq[k]}

\* std::sort by created_time: every arrangement in ascending order (the order
\* of equal elements is unspecified)
SortedListings(S) ==
    {seq \in [1..Cardinality(S) -> S] :
        /\ \A i, k \in 1..Cardinality(S) : i # k => seq[i] # seq[k]
        /\ \A i, k \in 1..Cardinality(S) :
               i < k => seq[i].created_time <= seq[k].created_time}

\* a loop that skips no session
IsCurrentSession_never(session) == FALSE

\* session.filename == current_session_
IsCurrentSession(session) == session.filename = current_session_

\* ---- state after construction and begin() -------------------------------------
InitFLVars ==
    /\ flash = <<>>
    /\ now_s = 0
    /\ logging_ = FALSE
    /\ file_ = FALSE
    /\ current_session_ = NoSession
    /\ cl_pc = "idle"
    /\ sessions = <<>>
    /\ cl_i = 1
    /\ deleted_count = 0
    /\ cl_ret = FALSE
    /\ cl_log = <<>>
    /\ cl_stop = "none"
    /\ nFlash = 0

clVars == <<cl_pc, sessions, cl_i, deleted_count, cl_ret, cl_log, cl_stop>>

\* ---- actions --------------------------------------------------------------
\* the clock moves to the next second
FlashTick ==
    /\ now_s < MaxTime
    /\ now_s' = now_s + 1
    /\ UNCHANGED <<flash, logging_, file_, current_session_, clVars, nFlash>>
    /\ UNCHANGED <<rbVars, oplVars, probe, fwb>>

\* FlashLogger::startSession(session_name); NoSession stands for nullptr and
\* for the empty string.
FlashLogger_startSession(session_name) ==
    \E open_ok, hdr_ok \in BOOLEAN :
    LET name == IF session_name = NoSession
                THEN generateSessionName(now_s)
                ELSE session_name
        \* fopen(.., "wb") creates the file or truncates it
        opened == (name :> [mtime |-> now_s, size |-> 0]) @@ Removed(flash, name)
    IN
    /\ (hdr_ok \/ open_ok)
    /\ IF logging_
       THEN /\ open_ok /\ hdr_ok
            /\ UNCHANGED <<flash, logging_, file_, current_session_, nFlash>>
       ELSE /\ nFlash < MaxFlashCalls
            /\ nFlash' = nFlash + 1
            /\ current_session_' = name
            /\ IF ~open_ok
               THEN UNCHANGED <<flash, logging_, file_>>
               ELSE IF ~hdr_ok \/ Used(opened) + HeaderSize > TotalSize
               THEN /\ flash' = opened
                    /\ file_' = FALSE
                    /\ UNCHANGED logging_
               ELSE /\ flash' = [opened EXCEPT ![name].size = HeaderSize]
                    /\ file_' = TRUE
                    /\ logging_' = TRUE
    /\ UNCHANGED <<now_s, clVars>>
    /\ UNCHANGED <<rbVars, oplVars, probe, fwb>>

\* logger->startSession() of app_main: called before the storage task exists,
\* so not while cleanupOldSessions runs.
startSession ==
    /\ cl_pc = "idle"
    /\ FlashLogger_startSession(NoSession)

\* flush() with frames in the write buffer, as writeFrame calls it from the
\* logging task: one block is appended to the session file.
flush ==
    \E sz \in BlockSizes :
        /\ logging_ /\ file_
        /\ flash' = Grown(flash, current_session_, sz)
        /\ flash' # flash
        /\ UNCHANGED <<now_s, logging_, file_, current_session_, clVars, nFlash>>
        /\ UNCHANGED <<rbVars, oplVars, probe, fwb>>

\* FlashLogger::stopSession: flush what is buffered, close the file.
FlashLogger_stopSession ==
    \E sz \in BlockSizes \cup {0} :
        /\ logging_
        /\ flash' = IF file_ THEN Grown(flash, current_session_, sz) ELSE flash
        /\ file_' = FALSE
        /\ logging_' = FALSE
        /\ UNCHANGED <<now_s, current_session_, clVars, nFlash>>
        /\ UNCHANGED <<rbVars, oplVars, probe, fwb>>

\* stopSession called by the task that started the session, between two runs of
\* cleanupOldSessions.
stopSession ==
    /\ cl_pc = "idle"
    /\ FlashLogger_stopSession

\* History: the state of the partition when cleanupOldSessions was called.
CallEntry ==
    [filename |-> NoSession, created_time |-> 0, act |-> "call",
     used |-> Used(flash), total |-> TotalSize]

\* cleanupOldSessions up to its loop: list, return false on an empty list,
\* sort by created_time.
cleanupOldSessions_begin ==
    \E dir_ok \in BOOLEAN, unstat \in SUBSET DOMAIN flash :
    \E sorted \in SortedListings(listSessions(dir_ok, unstat)) :
        /\ cl_pc = "idle"
        /\ nFlash < MaxFlashCalls
        /\ nFlash' = nFlash + 1
        /\ (dir_ok \/ unstat = {})
        /\ Cardinality(unstat) <= 1
        /\ sessions' = sorted
        /\ cl_i' = 1
        /\ deleted_count' = 0
        /\ cl_log' = <<CallEntry>>
        /\ IF Len(sorted) = 0
           THEN /\ cl_pc' = "done"
                /\ cl_ret' = FALSE
                /\ cl_stop' = "empty"
           ELSE /\ cl_pc' = "loop"
                /\ cl_stop' = "none"
                /\ UNCHANGED cl_ret
        /\ UNCHANGED <<flash, now_s, logging_, file_, current_session_>>
        /\ UNCHANGED <<rbVars, oplVars, probe, fwb>>

\* What the loop did with one session.
LogEntry(session, act, used, total) ==
    [filename |-> session.filename, created_time |-> session.created_time,
     act |-> act, used |-> used, total |-> total]

\* One iteration of the loop of cleanupOldSessions up to the call of
\* deleteSession, or the return after the loop.
cleanupOldSessions_step ==
    \E total_ok, used_ok \in BOOLEAN :
    LET session == sessions[cl_i]
        total == getTotalSize(total_ok)
        used == getTotalUsed(used_ok)
    IN
    /\ cl_pc = "loop"
    /\ IF cl_i > Len(sessions)
       THEN /\ total_ok /\ used_ok
            /\ cl_pc' = "done"
            /\ cl_ret' = (deleted_count > 0)
            /\ cl_stop' = "end"
            /\ UNCHANGED <<cl_i, cl_log>>
       ELSE IF IsCurrentSession(session)
       THEN /\ total_ok /\ used_ok
            /\ cl_i' = cl_i + 1
            /\ cl_log' = Append(cl_log, LogEntry(session, "skip", 0, 0))
            /\ UNCHANGED <<cl_pc, cl_ret, cl_stop>>
       ELSE IF AtOrBelowLowWater(used, total)
       THEN /\ cl_pc' = "done"
            /\ cl_ret' = (deleted_count > 0)
            /\ cl_stop' = "low"
            /\ cl_log' = Append(cl_log, LogEntry(session, "break", used, total))
            /\ UNCHANGED cl_i
       ELSE /\ cl_pc' = "remove"
            /\ cl_log' = Append(cl_log, LogEntry(session, "remove", used, total))
            /\ UNCHANGED <<cl_i, cl_ret, cl_stop>>
    /\ UNCHANGED <<flash, deleted_count, sessions, now_s, logging_, file_,
                   current_session_, nFlash>>
    /\ UNCHANGED <<rbVars, oplVars, probe, fwb>>

\* deleteSession(session.filename) and the end of the iteration.
cleanupOldSessions_remove ==
    \E rm_ok \in BOOLEAN :
    LET session == sessions[cl_i]
    IN
    /\ cl_pc = "remove"
    /\ cl_pc' = "loop"
    /\ cl_i' = cl_i + 1
    /\ IF rm_ok /\ session.filename \in DOMAIN flash
       THEN /\ flash' = Removed(flash, session.filename)
            /\ deleted_count' = deleted_count + 1
            /\ cl_log' = [cl_log EXCEPT ![Len(cl_log)].act = "deleted"]
       ELSE /\ cl_log' = [cl_log EXCEPT ![Len(cl_log)].act = "failed"]
            /\ UNCHANGED <<flash, deleted_count>>
    /\ UNCHANGED <<sessions, cl_ret, cl_stop, now_s, logging_, file_,
                   current_session_, nFlash>>
    /\ UNCHANGED <<rbVars, oplVars, probe, fwb>>

\* check_flash_storage takes the result of cleanupOldSessions, whose locals
\* are gone.
check_flash_storage ==
    /\ cl_pc = "done"
    /\ cl_pc' = "idle"
    /\ sessions' = <<>>
    /\ cl_i' = 1
    /\ deleted_count' = 0
    /\ cl_ret' = FALSE
    /\ cl_log' = <<>>
    /\ cl_stop' = "none"
    /\ UNCHANGED <<flash, now_s, logging_, file_, current_session_, nFlash>>
    /\ UNCHANGED <<rbVars, oplVars, probe, fwb>>

\* `usage >= HIGH_WATER_MARK` of check_flash_storage: usage is the percentage
\* getUsagePercent returns (0.0f when the total is 0), HIGH_WATER_MARK the
\* fraction 0.90f.
HighWaterReached(used, total) ==
    IF total = 0 THEN FALSE ELSE used * 100 * 100 >= HIGH_WATER_MARK * total

\* check_flash_storage after its delay: read the usage and call
\* cleanupOldSessions when the comparison with HIGH_WATER_MARK says so.
check_flash_storage_call ==
    \E total_ok, used_ok \in BOOLEAN :
        /\ cl_pc = "idle"
        /\ IF HighWaterReached(getTotalUsed(used_ok), getTotalSize(total_ok))
           THEN cleanupOldSessions_begin
           ELSE /\ UNCHANGED flVars
                /\ UNCHANGED <<rbVars, oplVars, probe, fwb>>

\* startSession and stopSession called from a task that runs beside the
\* storage task, at any point of cleanupOldSessions.
startSession_concurrent ==
    \E session_name \in SessionNameInputs : FlashLogger_startSession(session_name)

stopSession_concurrent == FlashLogger_stopSession

NextFlash ==
    \/ FlashTick
    \/ startSession
    \/ flush
    \/ stopSession
    \/ cleanupOldSessions_begin
    \/ cleanupOldSessions_step
    \/ cleanupOldSessions_remove
    \/ check_flash_storage

----------------------------------------------------------------------------
(* Part IV: 64-bit timestamps *)

\* ---- inputs ---------------------------------------------------------------
\* Values of time_us_64() and of the timestamp arguments, as limbs: small ones,
\* ones around 2^16 ms and 2^32 us, and ones beyond 2^32 ms.
WideInputs ==
    {<<a, b, c, d>> : a \in {0, 1000, 65535}, b \in {0, 1000},
                      c \in {0, 1000}, d \in {0, 65535}}

ZeroLimbs == <<0, 0, 0, 0>>

\* ---- state before any computation ------------------------------------------
InitProbe == probe = [op |-> "none"]

\* ---- actions --------------------------------------------------------------
\* The first lines of block_add_accel and block_add_gps on a block whose
\* ts_start is `start`, for a sample with timestamp ts_us: ts_start, ts_end and
\* the offset stored in the record header.
block_add_stamp ==
    \E start, ts_us \in WideInputs :
        LET ts_start == IF start = ZeroLimbs THEN ts_us ELSE start
        IN  /\ probe' = [op |-> "block_add", ts_us |-> ts_us,
                         ts_start |-> ts_start, ts_end |-> ts_us,
                         offset_ms |-> OffsetMsWide(ts_us, ts_start)]
            /\ UNCHANGED <<rbVars, oplVars, flVars, fwb>>

\* s.timestamp_us = time_us_64(): sample_t keeps the timestamp in a uint32_t
sample_timestamp_us(time_us_64) == TruncU32(time_us_64)

\* uint64_t ts = s.timestamp_us ? s.timestamp_us : time_us_64();
consumer_ts(timestamp_us, time_us_64) ==
    IF timestamp_us = ZeroLimbs THEN time_us_64 ELSE timestamp_us

\* if (timestamp_us == 0) timestamp_us = time_us_64();
opl_write_ts(timestamp_us, time_us_64) ==
    IF timestamp_us = ZeroLimbs THEN time_us_64 ELSE timestamp_us

\* Two samples on their way producer -> ring buffer -> consumer -> logger into
\* one empty block: the producer reads the clock at t1 and later at t2, the
\* consumer pops the first sample at t1 or t2 and the second at t2. The
\* producer starts after the boot delay, so the clock is past 0.
sample_path ==
    \E t1, t2 \in WideInputs :
    \E pop1 \in {t1, t2} :
        LET ts1 == opl_write_ts(consumer_ts(sample_timestamp_us(t1), pop1), pop1)
            ts2 == opl_write_ts(consumer_ts(sample_timestamp_us(t2), t2), t2)
            ts_start == IF ts1 = ZeroLimbs THEN ts2 ELSE ts1
        IN  /\ t1 # ZeroLimbs
            /\ GeqLimbs(t2, t1)
            /\ probe' = [op |-> "sample_path", sampled |-> <<t1, t2>>,
                         written |-> <<ts1, ts2>>,
                         ts_start |-> ts_start, ts_end |-> ts2,
                         offset_ms |-> OffsetMsWide(ts2, ts_start)]
            /\ UNCHANGED <<rbVars, oplVars, flVars, fwb>>

NextStamp ==
    \/ block_add_stamp
    \/ sample_path

----------------------------------------------------------------------------
(* Part V: the write buffer of the flash logger *)

\* ---- bounds ---------------------------------------------------------------
MaxFrames == 18

\* ---- constants of logger.h ------------------------------------------------
FRAME_SIZE == 64

BUFFER_SIZE == FRAME_SIZE * 16

\* ---- state after construction ---------------------------------------------
InitWB ==
    fwb = [file_ |-> FALSE, logging_ |-> FALSE, frame_count_ |-> 0,
          buffer_pos_ |-> 0,
          write_buffer_ |-> [i \in 1..(BUFFER_SIZE \div FRAME_SIZE) |-> 0],
          overrun |-> FALSE, accepted |-> <<>>, handed |-> <<>>,
          op |-> "none", ret |-> TRUE, nFrames |-> 0]

\* ---- FlashLogger::flush ---------------------------------------------------
\* The bytes write_buffer_[0 .. buffer_pos_) go to fwrite as one block (the
\* results of fwrite are not looked at), then buffer_pos_ = 0.
flush_buffer(w) ==
    IF ~w.file_ \/ w.buffer_pos_ = 0
    THEN w
    ELSE [w EXCEPT
            !.handed = @ \o [i \in 1..(w.buffer_pos_ \div FRAME_SIZE) |->
                                w.write_buffer_[i]],
            !.buffer_pos_ = 0]

\* ---- FlashLogger::writeFrame ----------------------------------------------
\* A writeFrame that leaves the full buffer to the next call.
writeFrame_noAutoFlush(w, frame) ==
    LET w1 == IF w.buffer_pos_ + FRAME_SIZE > BUFFER_SIZE THEN flush_buffer(w) ELSE w
        fits == w1.buffer_pos_ + FRAME_SIZE <= BUFFER_SIZE
    IN  [w1 EXCEPT
            !.write_buffer_ = IF fits
                              THEN [@ EXCEPT ![w1.buffer_pos_ \div FRAME_SIZE + 1] = frame]
                              ELSE @,
            !.overrun = @ \/ ~fits,
            !.buffer_pos_ = @ + FRAME_SIZE,
            !.frame_count_ = @ + 1]

\* memcpy(write_buffer_ + buffer_pos_, &frame, FRAME_SIZE) between the two
\* flush tests; a copy that would end past the buffer is recorded in overrun.
writeFrame(w, frame) ==
    LET w1 == IF w.buffer_pos_ + FRAME_SIZE > BUFFER_SIZE THEN flush_buffer(w) ELSE w
        fits == w1.buffer_pos_ + FRAME_SIZE <= BUFFER_SIZE
        w2 == [w1 EXCEPT
                 !.write_buffer_ = IF fits
                                   THEN [@ EXCEPT ![w1.buffer_pos_ \div FRAME_SIZE + 1] = frame]
                                   ELSE @,
                 !.overrun = @ \/ ~fits,
                 !.buffer_pos_ = @ + FRAME_SIZE,
                 !.frame_count_ = @ + 1]
    IN  IF w2.buffer_pos_ >= BUFFER_SIZE THEN flush_buffer(w2) ELSE w2

\* ---- actions --------------------------------------------------------------
\* FlashLogger::startSession, as far as the write buffer goes.
WriteBuffer_startSession ==
    \E open_ok, hdr_ok \in BOOLEAN :
        /\ (hdr_ok \/ open_ok)
        /\ IF fwb.logging_
           THEN /\ open_ok /\ hdr_ok
                /\ fwb' = [fwb EXCEPT !.op = "startSession", !.ret = FALSE]
           ELSE IF ~open_ok \/ ~hdr_ok
           THEN fwb' = [fwb EXCEPT !.file_ = FALSE, !.op = "startSession",
                                 !.ret = FALSE]
           ELSE fwb' = [fwb EXCEPT !.file_ = TRUE, !.logging_ = TRUE,
                                 !.frame_count_ = 0, !.buffer_pos_ = 0,
                                 !.accepted = <<>>, !.handed = <<>>,
                                 !.op = "startSession", !.ret = TRUE]
        /\ UNCHANGED <<rbVars, oplVars, flVars, probe>>

\* FlashLogger::logFrame with the next frame.
FlashLogger_logFrame ==
    /\ fwb.nFrames < MaxFrames
    /\ IF ~fwb.logging_ \/ ~fwb.file_
       THEN fwb' = [fwb EXCEPT !.op = "logFrame", !.ret = FALSE]
       ELSE LET frame == fwb.nFrames + 1
            IN  fwb' = [writeFrame(fwb, frame) EXCEPT
                          !.accepted = @ \o <<frame>>, !.nFrames = frame,
                          !.op = "logFrame", !.ret = TRUE]
    /\ UNCHANGED <<rbVars, oplVars, flVars, probe>>

\* FlashLogger::flush called by the logging task.
FlashLogger_flush ==
    /\ fwb' = [flush_buffer(fwb) EXCEPT !.op = "flush", !.ret = TRUE]
    /\ UNCHANGED <<rbVars, oplVars, flVars, probe>>

\* FlashLogger::stopSession, as far as the write buffer goes.
WriteBuffer_stopSession ==
    /\ IF ~fwb.logging_
       THEN fwb' = [fwb EXCEPT !.op = "stopSession", !.ret = TRUE]
       ELSE fwb' = [flush_buffer(fwb) EXCEPT !.file_ = FALSE, !.logging_ = FALSE,
                                          !.op = "stopSession", !.ret = TRUE]
    /\ UNCHANGED <<rbVars, oplVars, flVars, probe>>

NextWriteBuffer ==
    \/ WriteBuffer_startSession
    \/ FlashLogger_logFrame
    \/ FlashLogger_flush
    \/ WriteBuffer_stopSession

----------------------------------------------------------------------------
(* Specifications *)

Init == InitRBVars /\ InitOPLVars /\ InitFLVars /\ InitProbe /\ InitWB

Spec == Init /\ [][Next]_vars

SpecFaulty == Init /\ [][NextFaulty]_vars

\* The same with the hardware inventory filled in by the caller.
NextHw ==
    \/ Next
    \/ opl_add_hardware_item

SpecHw == Init /\ [][NextHw]_vars

\* A caller that declares hardware and starts and stops sessions on storage
\* that may fail, without writing samples.
NextHwFaulty ==
    \/ InjectFaults
    \/ Tick
    \/ opl_add_hardware_item
    \/ opl_start_session
    \/ opl_stop_session
    \/ opl_check_flush

SpecHwFaulty == Init /\ [][NextHwFaulty]_vars

\* The same with the caller changing the event configuration.
NextConfig ==
    \/ Next
    \/ opl_set_gforce_threshold
    \/ opl_set_event_rate_limit

SpecConfig == Init /\ [][NextConfig]_vars

\* A caller that sets the event configuration and logs accelerometer samples
\* only, as the consumer does when no GPS fix arrives.
NextSettings ==
    \/ Tick
    \/ opl_set_gforce_threshold
    \/ opl_set_event_rate_limit
    \/ opl_start_session
    \/ opl_write_accel
    \/ opl_check_flush

SpecSettings == Init /\ [][NextSettings]_vars


SpecRB == Init /\ [][NextRB]_vars

\* Both cores keep executing instructions; only the storage calls of the
\* consumer (ConsumerWriteDone, ConsumerCheckFlushDone) may never return.
SpecRBFair ==
    /\ Init
    /\ [][NextRB]_vars
    /\ WF_vars(ProducerStep)
    /\ WF_vars(ConsumerPopStep)

\* The flash logger with its logging task and its storage task.
SpecFlash == Init /\ [][NextFlash]_vars

\* The flash logger with the storage task as main.cpp runs it: cleanupOldSessions
\* is called by check_flash_storage only.
NextStorageTask ==
    \/ FlashTick
    \/ startSession
    \/ flush
    \/ stopSession
    \/ check_flash_storage_call
    \/ cleanupOldSessions_step
    \/ cleanupOldSessions_remove
    \/ check_flash_storage

SpecStorageTask == Init /\ [][NextStorageTask]_vars

\* The flash logger used from two tasks without a lock: sessions are started
\* and stopped while cleanupOldSessions runs. The calls of one clock second.
NextConcurrent ==
    \/ startSession_concurrent
    \/ flush
    \/ stopSession_concurrent
    \/ cleanupOldSessions_begin
    \/ cleanupOldSessions_step
    \/ cleanupOldSessions_remove
    \/ check_flash_storage

SpecConcurrent == Init /\ [][NextConcurrent]_vars

\* The storage task keeps running: a call of cleanupOldSessions that is in its
\* loop executes its next iteration.
SpecFlashFair ==
    /\ SpecFlash
    /\ WF_vars(cleanupOldSessions_step)
    /\ WF_vars(cleanupOldSessions_remove)

\* The timestamp computations on 64-bit values.
SpecStamp == Init /\ [][NextStamp]_vars

SpecWriteBuffer == Init /\ [][NextWriteBuffer]_vars

\* The consumer loop of one session that is never stopped: samples are written
\* as they are popped, opl_check_flush is called whenever the queue is empty,
\* and the clock runs on. The loop and the clock are never starved.
NextConsumerLoop ==
    \/ Tick
    \/ ClockAdvance
    \/ opl_start_session
    \/ opl_write_accel
    \/ opl_write_gps
    \/ opl_check_flush

SpecConsumerLoop ==
    /\ Init
    /\ [][NextConsumerLoop]_vars
    /\ WF_vars(ClockAdvance)
    /\ WF_vars(opl_check_flush)

----------------------------------------------------------------------------
(* Part I: properties of the sample queue *)

\* C1: under every interleaving of the producer's pushes and the consumer's
\* pops, the samples handed out by successful pops followed by the samples
\* still queued are exactly the samples of the successful pushes, in push
\* order: nothing is duplicated, reordered, lost or invented, and the sample
\* the consumer works on is the one its pop returned.
C1_FifoExactlyOnce ==
    /\ popped \o QueueContents = pushed
    /\ \A i, j \in 1..Len(pushed) : i < j => pushed[i] < pushed[j]
    /\ pcC = "write" => (Len(popped) > 0 /\ outC = popped[Len(popped)])

\* C1 witness: samples were popped, one is queued, and the head index has
\* wrapped around behind the tail.
C1_Witness == Len(popped) >= 2 /\ QueueCount >= 1 /\ head < tail

C3_NoLostCounterUpdate ==
    pcP \notin {"push_drop_store"} => drop_count = dropsSinceReset

\* C4: the consumer never holds the queue mutex while it is inside a storage
\* call; a pop that finds the queue empty goes straight to its return with
\* ok = false; and while the consumer stays blocked inside a storage write,
\* every push the producer has started returns.
C4_StorageNeverBlocksProducer ==
    /\ [](pcC \in {"write", "check_flush"} => rb_mutex # "consumer")
    /\ [][(pcC = "pop_check" /\ ring_buffer_is_empty /\ pcC' # pcC) =>
            (pcC' = "pop_unlock" /\ ~okC')]_vars
    /\ ((pcC = "write" /\ pcP # "idle") ~> (pcP = "idle" \/ pcC # "write"))

\* C4 witness: the consumer is inside a storage write while the producer is
\* about to return false from a push that found the queue full.
C4_Witness == pcC = "write" /\ pcP = "push_unlock" /\ ~okP

\* C5: head and tail stay inside the array, the queue holds at most
\* RING_BUFFER_CAPACITY - 1 samples, is_full holds exactly when it holds that
\* many and is_empty exactly when it holds none, so never both.
C5_QueueBounds ==
    LET held == Len(pushed) - Len(popped) IN
    /\ head \in 0..(RING_BUFFER_CAPACITY - 1)
    /\ tail \in 0..(RING_BUFFER_CAPACITY - 1)
    /\ held = QueueCount
    /\ held <= RING_BUFFER_CAPACITY - 1
    /\ ring_buffer_is_full <=> (held = RING_BUFFER_CAPACITY - 1)
    /\ ring_buffer_is_empty <=> (held = 0)
    /\ ~(ring_buffer_is_full /\ ring_buffer_is_empty)

\* C5 witness: the queue is full with the head index wrapped behind the tail.
C5_Witness == ring_buffer_is_full /\ head < tail


----------------------------------------------------------------------------
(* Part II: properties of the block accumulator and of the flush policy *)

\* Bytes a payload occupies: a four-byte header and the type's payload for
\* each record.
RECURSIVE PayloadBytes(_)
PayloadBytes(p) ==
    IF p = <<>> THEN 0
    ELSE SAMPLE_HEADER_LEN + Head(p).len + PayloadBytes(Tail(p))

\* A record that carries the whole payload of its type.
WholeRecord(r) ==
    /\ r.type = SAMPLE_TYPE_ACCELEROMETER => r.len = ACCEL_PAYLOAD_LEN
    /\ r.type = SAMPLE_TYPE_GPS_FIX => r.len = GPS_PAYLOAD_LEN

\* The data blocks of every file of the volume.
DataBlocks ==
    UNION {{files[name][i] : i \in {j \in 1..Len(files[name]) :
                                        files[name][j].type = "data"}} :
           name \in DOMAIN files}

\* C6: after any sequence of start, write_accel, write_gps, check_flush and
\* stop calls the current block's payload is at most MAX_DATA_PAYLOAD bytes
\* and made of whole records, and so is the payload of every data block
\* written to a file.
C6_PayloadWithinCapacity ==
    /\ current_block.data_size <= MAX_DATA_PAYLOAD
    /\ current_block.data_size = PayloadBytes(current_block.payload)
    /\ current_block.sample_count = Len(current_block.payload)
    /\ \A i \in 1..Len(current_block.payload) : WholeRecord(current_block.payload[i])
    /\ \A r \in DataBlocks :
        /\ r.data_size <= MAX_DATA_PAYLOAD
        /\ r.data_size = PayloadBytes(r.payload)
        /\ r.sample_count = Len(r.payload)
        /\ \A i \in 1..Len(r.payload) : WholeRecord(r.payload[i])

\* C6 witness: a write found no room for its sample, the block it committed
\* is in the file and the sample sits in the block that followed.
C6_Witness ==
    /\ call.op \in {"write_accel", "write_gps"}
    /\ call.overflow
    /\ call.ret
    /\ current_block.data_size > 0
    /\ \E r \in DataBlocks :
        r.data_size + SAMPLE_HEADER_LEN + ACCEL_PAYLOAD_LEN > MAX_DATA_PAYLOAD

\* C7: an append that would exceed the payload capacity returns false and
\* leaves every field of the block as it was, so every data block in a file
\* ends at the timestamp of the last sample it holds.
C7_FailedAppendLeavesBlock ==
    /\ \A g \in AccelInputs :
        LET r == block_add_accel(current_block, clock, g, 0)
        IN  ~r.ok => r.b = current_block
    /\ \A fix \in GpsInputs :
        LET r == block_add_gps(current_block, clock, fix, 0)
        IN  ~r.ok => r.b = current_block
    /\ \A r \in DataBlocks : r.ts_end = r.payload[Len(r.payload)].ts

\* C8: a write on an active session whose sample does not fit commits the
\* current block, returns true, and leaves the sample as the first record of
\* a fresh block that carries the committed block's sequence number plus one.
C8_OverflowStartsNextBlock ==
    (call.op \in {"write_accel", "write_gps"} /\ call.overflow) =>
        /\ call.ret
        /\ Len(call.commits) >= 1
        /\ call.commits[1].sample_count > 0
        /\ IF Len(call.commits) = 2
           THEN /\ call.commits[2].sample_count = 1
                /\ call.commits[2].block_sequence
                       = call.commits[1].block_sequence + 1
           ELSE /\ current_block.sample_count = 1
                /\ current_block.payload[1].id = call.id
                /\ current_block.block_sequence
                       = call.commits[1].block_sequence + 1

\* The EVENT-flagged commits among the commits of the last call.
EventCommits ==
    {i \in 1..Len(call.commits) : HasFlag(call.commits[i].flags, FLUSH_FLAG_EVENT)}

\* C9: an accepted accelerometer sample at or above the threshold commits its
\* block with the EVENT flag exactly when the session has made no EVENT commit
\* during the event_rate_limit before it; a sample inside that window stays
\* buffered, so two EVENT commits of a session are at least event_rate_limit
\* apart and two such samples inside one window give exactly one.
C9_EventRateLimit ==
    (call.op = "write_accel" /\ call.ret /\ call.high) =>
        LET elapsed == \/ call.prev_event = -1
                       \/ call.now - call.prev_event >= event_rate_limit_s
        IN  Cardinality(EventCommits) = IF elapsed THEN 1 ELSE 0

\* C10: after opl_write_accel or opl_write_gps returns true the current
\* block's occupancy is below 90% of the payload capacity.
C10_SizeTriggerOnEveryAccept ==
    (call.op \in {"write_accel", "write_gps"} /\ call.ret) =>
        current_block.data_size * 10 < MAX_DATA_PAYLOAD * 9

\* The last record of the current session's file.
LastRecord == files[current_filename][Len(files[current_filename])]

\* The records of a payload are all accelerometer records.
OnlyAccel(p) == \A i \in 1..Len(p) : p[i].type = SAMPLE_TYPE_ACCELEROMETER

\* C11: in a block of accelerometer samples only, a sample below the
\* threshold that fits the block and brings it to 90% of the capacity or more
\* makes exactly one commit, flagged SIZE, of a block that ends with that
\* sample; the block that follows is empty and its sequence number is one
\* higher. Below 90% nothing is written.
C11_SizeCommitThenNextBlock ==
    (/\ call.op = "write_accel" /\ call.ret /\ ~call.high /\ ~call.overflow
     /\ OnlyAccel(IF call.commits = <<>> THEN current_block.payload
                  ELSE LastRecord.payload)) =>
        IF call.commits = <<>>
        THEN current_block.data_size * 10 < MAX_DATA_PAYLOAD * 9
        ELSE /\ Len(call.commits) = 1
             /\ HasFlag(call.commits[1].flags, FLUSH_FLAG_SIZE)
             /\ LastRecord.type = "data"
             /\ LastRecord.sample_count = call.commits[1].sample_count
             /\ LastRecord.data_size * 10 >= MAX_DATA_PAYLOAD * 9
             /\ LastRecord.payload[Len(LastRecord.payload)].id = call.id
             /\ current_block.sample_count = 0
             /\ current_block.data_size = 0
             /\ current_block.block_sequence = call.commits[1].block_sequence + 1

\* C12: a block committed with the EVENT flag by a sample that also brought
\* it to 90% of the capacity or more carries the SIZE flag as well.
C12_SizeAndEventFlags ==
    (call.op = "write_accel" /\ call.ret /\ call.high) =>
        \A i \in EventCommits :
            call.commits[i].data_size * 10 >= MAX_DATA_PAYLOAD * 9 =>
                /\ HasFlag(call.commits[i].flags, FLUSH_FLAG_EVENT)
                /\ HasFlag(call.commits[i].flags, FLUSH_FLAG_SIZE)

\* C13: opl_check_flush on an active session whose last flush is 300 s or
\* more in the past appends the current block, flagged TIME, to the session's
\* file when it holds at least one sample, leaves an empty block behind and
\* sets last_flush_time to the clock; when less than 300 s have passed it
\* leaves the files, the block and its sequence number, and the timers alone.
C13_TimeFlush ==
    [][(opl_check_flush /\ logger_active) =>
        IF clock - last_flush_time >= FLUSH_TIME_THRESHOLD_SECS * UsPerSec
        THEN /\ last_flush_time' = clock
             /\ current_block'.sample_count = 0
             /\ \A name \in DOMAIN files :
                    name # current_filename => files'[name] = files[name]
             /\ IF current_block.sample_count > 0
                THEN LET f == files'[current_filename]
                     IN  /\ Len(f) = Len(files[current_filename]) + 1
                         /\ SubSeq(f, 1, Len(f) - 1) = files[current_filename]
                         /\ f[Len(f)].type = "data"
                         /\ HasFlag(f[Len(f)].flush_flags, FLUSH_FLAG_TIME)
                         /\ f[Len(f)].payload = current_block.payload
                         /\ f[Len(f)].sample_count = current_block.sample_count
                ELSE files' = files
        ELSE UNCHANGED <<files, current_block, last_flush_time,
                         last_event_flush_time, logger_active, file_open>>]_vars

\* C13 witness: a time flush has just committed a block holding one sample.
C13_Witness ==
    /\ call.op = "check_flush"
    /\ Len(call.commits) = 1
    /\ call.commits[1].sample_count = 1
    /\ HasFlag(call.commits[1].flags, FLUSH_FLAG_TIME)
    /\ last_flush_time = clock

\* C14: no data block with zero samples is in any file, and a commit of an
\* empty block writes nothing: a time flush of an empty block leaves every
\* file as it is, and a stop on an empty block appends the end marker only.
C14_EmptyCommitWritesNothing ==
    /\ [](\A r \in DataBlocks : r.sample_count > 0 /\ Len(r.payload) > 0)
    /\ [][(opl_check_flush /\ current_block.sample_count = 0) =>
            files' = files]_vars
    /\ [][(opl_stop_session /\ logger_active /\ current_block.sample_count = 0) =>
            files' = [files EXCEPT ![current_filename] = Append(@, EndRecord)]]_vars

\* C14 witness: the time trigger has fired on a session that never held a
\* sample, and its file holds the header only.
C14_Witness ==
    /\ call.op = "check_flush"
    /\ logger_active
    /\ current_block.sample_count = 0
    /\ Len(files[current_filename]) = 1
    /\ files[current_filename][1].write_ts < clock
    /\ last_flush_time = clock

\* C15: in every session file the sequence numbers of the data blocks are
\* strictly increasing in file order and every data block carries the session
\* id of the file's header; opl_start_session leaves the sequence number 0.
C15_SequencePerSession ==
    /\ \A name \in DOMAIN files :
        LET f == files[name] IN
        \A i, j \in 1..Len(f) :
            /\ (f[i].type = "data" /\ f[j].type = "data" /\ i < j) =>
                    f[i].block_sequence < f[j].block_sequence
            /\ (f[1].type = "header" /\ f[j].type = "data") =>
                    f[j].session_id = f[1].session_id
    /\ (call.op = "start_session" /\ call.ret) => current_block.block_sequence = 0

\* C16: opl_start_session on an active session appends the non-empty current
\* block and then the end marker of the old session to the old file and to
\* no other, creates a different file that holds no sample, and starts with
\* an empty block; in every state each file but the current one is closed by
\* an end marker, and a file is open exactly while the logger is active.
C16_StartClosesActiveSession ==
    /\ [](/\ file_open <=> logger_active
          /\ \A name \in DOMAIN files :
                name # current_filename =>
                    files[name][Len(files[name])].type = "end")
    /\ [][(opl_start_session /\ logger_active) =>
            LET old == current_filename
                flushed == IF current_block.sample_count > 0
                           THEN <<DataRecord(current_block)>>
                           ELSE <<>>
            IN  /\ current_filename' # old
                /\ old \in DOMAIN files'
                /\ files'[old] = files[old] \o flushed \o <<EndRecord>>
                /\ \A name \in DOMAIN files : name # old => files'[name] = files[name]
                /\ \A i \in 1..Len(files'[current_filename']) :
                        files'[current_filename'][i].type \in {"header", "hw"}
                /\ current_block'.sample_count = 0
                /\ current_block'.payload = <<>>]_vars

\* C16 witness: a start on an active session has flushed that session's block
\* and a second file exists.
C16_Witness ==
    /\ call.op = "start_session"
    /\ call.ret
    /\ Len(call.commits) = 1
    /\ Cardinality(DOMAIN files) = 2
    /\ logger_active

\* C17: an opl_start_session that returns false leaves the logger inactive
\* with no file open, whether or not a session was active before; one that
\* returns true has created the file and written its header; and the logger
\* does not become active, nor a write return true, except after a start
\* that returned true.
C17_FailedStartLeavesInactive ==
    /\ []((call.op = "start_session" /\ ~call.ret) =>
            (~logger_active /\ ~file_open))
    /\ []((call.op = "start_session" /\ call.ret) =>
            /\ logger_active /\ file_open
            /\ current_filename \in DOMAIN files
            /\ files[current_filename][1].type = "header")
    /\ []((call.op \in {"write_accel", "write_gps"} /\ call.ret) => logger_active)
    /\ [][(~logger_active /\ (opl_write_accel \/ opl_write_gps)) =>
            (~call'.ret /\ ~logger_active')]_vars
    /\ [][(~logger_active /\ logger_active') =>
            (call'.op = "start_session" /\ call'.ret)]_vars

\* C17 witness: a start on an active session, which flushed that session's
\* block, has failed and left the logger inactive.
C17_Witness ==
    /\ call.op = "start_session"
    /\ ~call.ret
    /\ Len(call.commits) = 1
    /\ ~logger_active
    /\ ~file_open

\* C18: while no session is active, opl_write_accel and opl_write_gps return
\* false, and neither they nor opl_check_flush change the files, the current
\* block with its sequence number, the flush timers, the hardware items or
\* the session state.
C18_InactiveCallsChangeNothing ==
    [][(~logger_active /\ (opl_write_accel \/ opl_write_gps \/ opl_check_flush)) =>
        /\ UNCHANGED <<files, current_block, last_flush_time,
                       last_event_flush_time, hw_items, logger_active, file_open,
                       current_session, current_filename>>
        /\ (call'.op \in {"write_accel", "write_gps"} => ~call'.ret)]_vars

\* C18 witness: a write was refused on a stopped logger that still holds the
\* last block's samples and a declared hardware item.
C18_Witness ==
    /\ call.op \in {"write_accel", "write_gps"}
    /\ ~call.ret
    /\ ~logger_active
    /\ Len(hw_items) = 1
    /\ current_block.sample_count > 0
    /\ DOMAIN files # {}

\* C19: opl_stop_session on an active session appends to the session's file
\* the current block when it holds a sample and after it the end marker with
\* the session id, changes no other file, and leaves the logger inactive with
\* the file closed and the hardware items cleared.
C19_StopFlushesThenCloses ==
    [][(opl_stop_session /\ logger_active) =>
        LET flushed == IF current_block.sample_count > 0
                       THEN <<DataRecord(current_block)>>
                       ELSE <<>>
            marker == [type |-> "end", session_id |-> current_session]
        IN  /\ files'[current_filename] =
                    files[current_filename] \o flushed \o <<marker>>
            /\ \A name \in DOMAIN files :
                    name # current_filename => files'[name] = files[name]
            /\ DOMAIN files' = DOMAIN files
            /\ ~logger_active'
            /\ ~file_open'
            /\ hw_items' = <<>>]_vars

\* C19 witness: a stop has flushed a block holding samples into a file that
\* also records the hardware declared for the session.
C19_Witness ==
    /\ call.op = "stop_session"
    /\ Len(call.commits) = 1
    /\ ~logger_active
    /\ hw_items = <<>>
    /\ Len(files[current_filename]) >= 4
    /\ files[current_filename][2].type = "hw"
    /\ LastRecord.type = "end"

\* The end markers of a file.
EndMarkers(f) == {i \in 1..Len(f) : f[i].type = "end"}

\* C20: after opl_stop_session the logger is inactive with no file open; a
\* stop on an inactive logger, after a stop or before any start, changes
\* neither the files nor any other state of the logger; so no file ever holds
\* a second end marker.
C20_StopIdempotent ==
    /\ [](call.op = "stop_session" => (~logger_active /\ ~file_open))
    /\ [][(opl_stop_session /\ ~logger_active) =>
            UNCHANGED <<files, logger_active, file_open, current_filename,
                        current_block, current_session, last_flush_time,
                        last_event_flush_time, gforce_threshold,
                        event_rate_limit_s, hw_items>>]_vars
    /\ [](\A name \in DOMAIN files : Cardinality(EndMarkers(files[name])) <= 1)

\* C20 witness: a stop on a logger that an earlier stop left inactive, with
\* the samples of the flushed block still in current_block, wrote nothing.
C20_Witness ==
    /\ call.op = "stop_session"
    /\ call.commits = <<>>
    /\ ~logger_active
    /\ current_block.sample_count > 0
    /\ LastRecord.type = "end"
    /\ Cardinality(EndMarkers(files[current_filename])) = 1

----------------------------------------------------------------------------
(* Part II: properties of the session files *)

\* The positions of the records of one type in a file.
RecordsOfType(f, type) == {i \in 1..Len(f) : f[i].type = type}

\* The samples of a file's data blocks, in file order.
RECURSIVE SamplesOf(_)
SamplesOf(f) ==
    IF f = <<>> THEN <<>>
    ELSE (IF Head(f).type = "data" THEN Head(f).payload ELSE <<>>)
         \o SamplesOf(Tail(f))

\* A file holds a header, then at most one hardware record, then data blocks.
WellOrdered(f) ==
    /\ Len(f) >= 1
    /\ RecordsOfType(f, "header") = {1}
    /\ RecordsOfType(f, "hw") \subseteq {2}
    /\ RecordsOfType(f, "torn") = {}
    /\ \A i \in 1..Len(f) : f[i].type \in {"header", "hw", "data", "end"}

\* A closed file: well ordered, and its only end marker is its last record and
\* carries the header's session id.
WellClosed(f) ==
    /\ WellOrdered(f)
    /\ RecordsOfType(f, "end") = {Len(f)}
    /\ f[Len(f)].session_id = f[1].session_id

C22_RegisteredHardwareRecorded ==
    [][(opl_start_session /\ call'.ret /\ Len(hw_items) > 0) =>
        LET f == files'[current_filename']
        IN  /\ Len(f) >= 2
            /\ f[2].type = "hw"
            /\ f[2].items = hw_items]_vars

\* C23: opl_add_hardware_item on a full list returns false and leaves the
\* list as it is, otherwise it appends its one item and returns true; the
\* list never holds more than MAX_HW_ITEMS items, failed starts included.
C23_HardwareListBounded ==
    /\ [](Len(hw_items) \in 0..MAX_HW_ITEMS)
    /\ [][opl_add_hardware_item =>
            IF Len(hw_items) >= MAX_HW_ITEMS
            THEN ~call'.ret /\ hw_items' = hw_items
            ELSE /\ call'.ret
                 /\ Len(hw_items') = Len(hw_items) + 1
                 /\ SubSeq(hw_items', 1, Len(hw_items)) = hw_items
                 /\ hw_items'[Len(hw_items')] \in HwInputs]_vars

\* C23 witness: an item was refused on a full list that a start with a failed
\* header write had left in place.
C23_Witness ==
    /\ call.op = "add_hardware_item"
    /\ ~call.ret
    /\ Len(hw_items) = MAX_HW_ITEMS
    /\ ~logger_active
    /\ \E name \in DOMAIN files : files[name] = <<TornRecord>>

----------------------------------------------------------------------------
(* Part II: properties under storage failures *)

\* C24: opl_write_accel and opl_write_gps return false when a block write of
\* a commit they made has failed, and no sample is written to a file twice.
C24_FailedFlushSurfaced ==
    /\ (call.op \in {"write_accel", "write_gps"}
            /\ \E i \in 1..Len(call.commits) : ~call.commits[i].ok) => ~call.ret
    /\ \A name \in DOMAIN files :
        LET written == SamplesOf(files[name])
        IN  \A i, k \in 1..Len(written) : i # k => written[i].id # written[k].id

\* The commits of the last call whose block write failed.
FailedCommits == {i \in 1..Len(call.commits) : ~call.commits[i].ok}

\* C25: after a write or a time flush whose block write failed the session is
\* still active with its file open, and the block that follows the failed one
\* starts empty (but for the sample whose arrival overflowed the failed one)
\* with the failed block's sequence number plus one; every write on an active
\* session, after a failure too, accepts its sample.
C25_FailedWriteKeepsLogging ==
    /\ []((call.op \in {"write_accel", "write_gps", "check_flush"}) =>
            \A i \in FailedCommits :
                /\ logger_active
                /\ file_open
                /\ IF i = Len(call.commits)
                   THEN /\ current_block.sample_count
                               <= (IF call.overflow THEN 1 ELSE 0)
                        /\ current_block.block_sequence
                               = call.commits[i].block_sequence + 1
                   ELSE call.commits[i + 1].block_sequence
                               = call.commits[i].block_sequence + 1)
    /\ [][(logger_active /\ (opl_write_accel \/ opl_write_gps)) =>
            (call'.ret /\ logger_active')]_vars

\* ---- Part II: properties of the session names ---------------------------------

\* The session numbers atoi() reads from the names on the volume.
SessionNumbers == {name.n : name \in DOMAIN files}

\* C26: when opl_start_session has read the whole directory, the new file is
\* named with the largest session number on the volume plus one, the name is
\* not the name of a file on the volume, and every file on the volume keeps
\* its content; a name other than the sequential one is used only when the
\* scan did not complete.
C26_SequentialNameIsFresh ==
    [][(call'.op = "start_session" /\ nStarts' = nStarts + 1) =>
        /\ (call'.scan = "complete") =>
            /\ call'.next = MaxOf(SessionNumbers) + 1
            /\ current_filename' = SequentialName(call'.next)
            /\ current_filename' \notin DOMAIN files
            /\ \A name \in DOMAIN files :
                /\ name \in DOMAIN files'
                /\ Len(files'[name]) >= Len(files[name])
                /\ SubSeq(files'[name], 1, Len(files[name])) = files[name]
        /\ (current_filename' # SequentialName(call'.next)) =>
                call'.scan # "complete"
      ]_vars

\* a second session has been started after a complete scan of a directory that
\* holds the first one
C26_Witness ==
    /\ call.op = "start_session"
    /\ call.ret
    /\ call.scan = "complete"
    /\ call.next >= 2
    /\ current_filename = SequentialName(call.next)
    /\ Cardinality(DOMAIN files) >= 2

\* ---- Part II: properties of the configuration ----------------------------------

\* C27: opl_set_gforce_threshold leaves the threshold as it was unless its
\* argument is strictly positive, opl_set_event_rate_limit leaves the limit as
\* it was when its argument is negative, neither reports an error, and in every
\* state the threshold is positive and the limit is not negative.
C27_SettersIgnoreInvalid ==
    /\ [](gforce_threshold > 0 /\ event_rate_limit_s >= 0)
    /\ [][(call'.op = "set_gforce_threshold" /\ nConfigs' = nConfigs + 1) =>
            /\ call'.ret
            /\ \/ gforce_threshold' = gforce_threshold
               \/ gforce_threshold' \in {g \in ThresholdInputs : g > 0}
            /\ event_rate_limit_s' = event_rate_limit_s]_vars
    /\ [][(call'.op = "set_event_rate_limit" /\ nConfigs' = nConfigs + 1) =>
            /\ call'.ret
            /\ \/ event_rate_limit_s' = event_rate_limit_s
               \/ event_rate_limit_s' \in {x \in RateLimitInputs : x >= 0}
            /\ gforce_threshold' = gforce_threshold]_vars

\* both settings have been changed by valid arguments, and calls with invalid
\* ones are possible from there
C27_Witness ==
    /\ nConfigs = 2
    /\ gforce_threshold = 10
    /\ event_rate_limit_s = 5000000
    /\ call.op \in {"set_gforce_threshold", "set_event_rate_limit"}

----------------------------------------------------------------------------
(* Part III: properties of the retention manager *)

\* Positions of the log where remove() was called, and the files it was
\* called on up to position k.
Attempts == {k \in 1..Len(cl_log) : cl_log[k].act \in {"deleted", "failed"}}

AttemptedUpTo(k) == {cl_log[j].filename : j \in {a \in Attempts : a <= k}}

\* The listed sessions that are not the current one, in the order of the list.
NonActive == SelectSeq(sessions, LAMBDA session : session.filename # current_session_)

\* The usage getUsagePercent returned for a log entry (0.0f when the total is
\* 0) is at most 60 %.
ReadAtOrBelow60(e) == e.total = 0 \/ e.used * 100 <= 60 * e.total

\* C28: cleanupOldSessions never calls remove() on the file current_session_
\* names, and no step takes that file off the partition, whatever the
\* directory holds, whatever the usage is and whatever remove() returns.
C28_CurrentSessionKept ==
    /\ [](\A k \in Attempts : cl_log[k].filename # current_session_)
    /\ [][\A n \in DOMAIN flash :
             n \notin DOMAIN flash' => n # current_session_]_vars

\* a run met the current session's file in its list, skipped it, and deleted a
\* session listed after it
C28_Witness ==
    /\ cl_pc = "done"
    /\ current_session_ \in DOMAIN flash
    /\ \E j, k \in 1..Len(cl_log) :
        /\ j < k
        /\ cl_log[j].act = "skip"
        /\ cl_log[k].act = "deleted"

\* C29: when cleanupOldSessions calls remove() on a session, remove() has been
\* called in the same run on every listed session other than the current one
\* whose modification time is strictly older; the sessions remove() was called
\* on are, in order, the first of the listed non-current sessions, which are
\* in ascending order of modification time.
C29_OldestFirst ==
    /\ \A k \in Attempts :
         \A i \in 1..Len(sessions) :
            (/\ sessions[i].filename # current_session_
             /\ sessions[i].created_time < cl_log[k].created_time)
            => sessions[i].filename \in AttemptedUpTo(k - 1)
    /\ Cardinality(Attempts) <= Len(NonActive)
    /\ \A k \in Attempts :
         cl_log[k].filename
            = NonActive[Cardinality({a \in Attempts : a <= k})].filename
    /\ \A i, k \in 1..Len(NonActive) :
         i < k => NonActive[i].created_time <= NonActive[k].created_time

\* a run has deleted an older session and then a newer one
C29_Witness ==
    /\ cl_pc \in {"loop", "done"}
    /\ \E j, k \in Attempts :
        /\ j < k
        /\ cl_log[j].act = "deleted"
        /\ cl_log[k].act = "deleted"
        /\ cl_log[j].created_time < cl_log[k].created_time

\* C30: cleanupOldSessions calls remove() only after reading a usage above
\* 60 %, and a file leaves the partition only when the usage is above 60 %;
\* when it returns, the usage it read last was at most 60 % or remove() has
\* been called on every listed session other than the current one; it returns
\* true exactly when a remove() succeeded; and a call that has entered its
\* loop returns.
C30_StopsAtLowWater ==
    /\ [](\A k \in Attempts : ~ReadAtOrBelow60(cl_log[k]))
    /\ [][(DOMAIN flash' # DOMAIN flash /\ DOMAIN flash' \subseteq DOMAIN flash)
            => Used(flash) * 100 > 60 * TotalSize]_vars
    /\ [](cl_pc = "done" =>
            \/ /\ Len(cl_log) > 0
               /\ cl_log[Len(cl_log)].act = "break"
               /\ ReadAtOrBelow60(cl_log[Len(cl_log)])
            \/ \A i \in 1..Len(NonActive) :
                   NonActive[i].filename \in AttemptedUpTo(Len(cl_log)))
    /\ [](cl_pc = "done" =>
            (cl_ret <=> \E k \in Attempts : cl_log[k].act = "deleted"))
    /\ (cl_pc \in {"loop", "remove"}) ~> (cl_pc = "done")

\* a run has deleted the oldest session, read a usage of at most 60 % before
\* the next one, and returned true with that session still on the partition
C30_Witness ==
    /\ cl_pc = "done"
    /\ cl_stop = "low"
    /\ cl_ret
    /\ deleted_count >= 1
    /\ cl_log[Len(cl_log)].total # 0
    /\ cl_log[Len(cl_log)].filename \in DOMAIN flash

\* C31: a session file is deleted by a run of cleanupOldSessions only if the
\* usage of the partition was at least 90 % when check_flash_storage called it.
C31_CleanupOnlyAtHighWater ==
    \A k \in Attempts :
        cl_log[k].act = "deleted" =>
            cl_log[1].used * 100 >= 90 * cl_log[1].total

\* C32: whatever the interleaving of cleanupOldSessions with startSession,
\* stopSession and flush, no step removes the file that is open for writing.
C32_OpenFileNeverRemoved ==
    [][\A n \in DOMAIN flash :
          n \notin DOMAIN flash' => ~(file_ /\ n = current_session_)]_vars

----------------------------------------------------------------------------
(* Part IV: properties of the timestamps *)

\* min(floor(diff / 1000), 65535) of a 64-bit difference in microseconds
SaturatedOffset(diff) ==
    LET ms == DivLimbs(diff, 1000)
    IN  IF ms[2] > 0 \/ ms[3] > 0 \/ ms[4] > 0 THEN 65535 ELSE ms[1]

\* C33: for a sample timestamp at or after the block's start timestamp, the
\* offset stored in the record is min(floor((timestamp - start) / 1000), 65535).
C33_OffsetSaturates ==
    (probe.op = "block_add" /\ GeqLimbs(probe.ts_us, probe.ts_start)) =>
        probe.offset_ms = SaturatedOffset(SubLimbs(probe.ts_us, probe.ts_start))

----------------------------------------------------------------------------
(* Part II, continued: the samples of a session *)

\* The sample ids of the data blocks of every file, files in the order of
\* their session numbers, blocks and samples in file order.
RECURSIVE WrittenIds(_)
WrittenIds(names) ==
    IF names = {} THEN <<>>
    ELSE LET first == CHOOSE a \in names : \A b \in names : a.n <= b.n
             samples == SamplesOf(files[first])
         IN  [i \in 1..Len(samples) |-> samples[i].id]
                 \o WrittenIds(names \ {first})

\* The sample ids of the current block while a session is active.
PendingIds ==
    IF logger_active
    THEN [i \in 1..Len(current_block.payload) |-> current_block.payload[i].id]
    ELSE <<>>

\* C34: when every storage write succeeds, the samples in the files followed
\* by the samples of the current block are at every moment exactly the
\* accepted samples, in acceptance order and each once; after
\* opl_stop_session the files alone hold them; a write on an active session
\* is accepted.
C34_AcceptedSamplesInFile ==
    /\ [](WrittenIds(DOMAIN files) \o PendingIds = [i \in 1..nWrites |-> i])
    /\ [][(logger_active /\ call'.op \in {"write_accel", "write_gps"}
            /\ call' # call)
              => (call'.ret /\ nWrites' = nWrites + 1 /\ call'.id = nWrites')]_vars

\* C34 witness: a stopped session whose file holds all the accepted samples
\* in more than one data block.
C34_Witness ==
    /\ ~logger_active
    /\ call.op = "stop_session"
    /\ nWrites = MaxWrites
    /\ \E name \in DOMAIN files :
          /\ Cardinality(RecordsOfType(files[name], "data")) >= 2
          /\ Len(SamplesOf(files[name])) = MaxWrites

\* C35: with a running clock and a consumer loop that is never starved, every
\* sample accepted into the current block is eventually in a data block of a
\* file, with no further sample and no call of opl_stop_session.
C35_AcceptedSampleEventuallyWritten ==
    \A id \in 1..MaxWrites :
        (\E i \in DOMAIN PendingIds : PendingIds[i] = id)
            ~> (\E i \in DOMAIN WrittenIds(DOMAIN files) :
                    WrittenIds(DOMAIN files)[i] = id)

\* C35 witness: after the last sample the time trigger of opl_check_flush
\* committed the samples that were waiting in the current block.
C35_Witness ==
    /\ logger_active
    /\ nWrites = MaxWrites
    /\ call.op = "check_flush"
    /\ Len(call.commits) = 1
    /\ current_block.sample_count = 0
    /\ Len(WrittenIds(DOMAIN files)) = MaxWrites

\* The sequence numbers of the data blocks of a file, in file order.
RECURSIVE SequenceNumbersOf(_)
SequenceNumbersOf(f) ==
    IF f = <<>> THEN <<>>
    ELSE (IF Head(f).type = "data" THEN <<Head(f).block_sequence>> ELSE <<>>)
             \o SequenceNumbersOf(Tail(f))

\* C36: when every storage write succeeds, the data blocks of a session file
\* carry the sequence numbers 0, 1, 2, ... in file order without a gap,
\* whatever the writes and opl_check_flush calls were.
C36_ConsecutiveSequenceNumbers ==
    \A name \in DOMAIN files :
        LET seq == SequenceNumbersOf(files[name])
        IN  \A k \in 1..Len(seq) : seq[k] = k - 1

\* An opl_check_flush that committed a block on the time trigger.
TimeCommitStep ==
    /\ call' # call
    /\ call'.op = "check_flush"
    /\ Len(call'.commits) = 1
    /\ (call'.commits[1].flags \div FLUSH_FLAG_TIME) % 2 = 1

\* C37: a TIME-flagged data block is written only when at least 300 s have
\* passed since the previous commit of the session, whatever its kind, or
\* since the start of the session: the time trigger measures from
\* last_flush_time, and a call that committed a block leaves last_flush_time
\* at the time of that call.
C37_TimeBlockAfterQuietPeriod ==
    /\ [][TimeCommitStep =>
            clock - last_flush_time >= FLUSH_TIME_THRESHOLD_SECS * UsPerSec]_vars
    /\ [][(TimeCommitStep /\ call.op \in {"write_accel", "write_gps"}
            /\ Len(call.commits) > 0)
              => clock - call.now >= FLUSH_TIME_THRESHOLD_SECS * UsPerSec]_vars

----------------------------------------------------------------------------
(* Part IV, continued: the timestamp of a sample on its way to the logger *)

\* C38: the timestamps written for a sample that went through the ring
\* buffer are the 64-bit clock values the producer read, also at and above
\* 2^32 us, and with a monotonic clock the block's start timestamp is at most
\* its end timestamp.
C38_FullTimestampReachesLogger ==
    probe.op = "sample_path" =>
        /\ probe.written = probe.sampled
        /\ GeqLimbs(probe.ts_end, probe.ts_start)

----------------------------------------------------------------------------
(* Part III, continued: the files startSession opens *)

\* C39: startSession never opens the file of a session that was completed
\* before, also when it follows a stopSession within the same clock
\* second, and a startSession issued while a session is logging leaves the
\* active session as it is.
C39_StartSessionCreatesNewFile ==
    /\ [][(startSession /\ ~logging_ /\ flash' # flash) =>
             (current_session_' \in DOMAIN flash =>
                 flash[current_session_'].size < HeaderSize)]_vars
    /\ [][(startSession /\ logging_) =>
             UNCHANGED <<flash, logging_, file_, current_session_>>]_vars

----------------------------------------------------------------------------
(* Part V: properties of the write buffer *)

\* C40: after every startSession, logFrame, flush and stopSession the buffer
\* position is a multiple of FRAME_SIZE with 0 <= buffer_pos_ < BUFFER_SIZE,
\* no frame was copied past the end of the buffer, and after stopSession the
\* frames handed to the block writes are the frames logFrame accepted since
\* startSession, in order and each once.
C40_WriteBufferInBounds ==
    /\ fwb.buffer_pos_ % FRAME_SIZE = 0
    /\ 0 <= fwb.buffer_pos_ /\ fwb.buffer_pos_ < BUFFER_SIZE
    /\ ~fwb.overrun
    /\ ~fwb.logging_ => fwb.handed = fwb.accepted

\* C40 witness: a session was stopped after its buffer had filled up once and
\* held more frames at the stop.
C40_Witness ==
    /\ fwb.op = "stopSession"
    /\ ~fwb.logging_
    /\ Len(fwb.accepted) > BUFFER_SIZE \div FRAME_SIZE
    /\ fwb.handed = fwb.accepted

=============================================================================
